---------------------------- MODULE Spec2Model ----------------------------
(***************************************************************************)
(* A model of the campground scraper: the paginated fetch with retries     *)
(* (get_campgrounds), the per-region pipeline (scrape_region,              *)
(* process_campground, save_to_database), the multi-region thread pool     *)
(* (parallel_scrape_regions) and the caching reverse geocoder              *)
(* (get_address_from_coordinates, batch_geocode).                          *)
(*                                                                         *)
(* One action is one interaction with shared state or with the outside     *)
(* world (an HTTP request, a cache lookup, a SELECT, a COMMIT) together    *)
(* with all the thread-local code that follows it up to the next such      *)
(* interaction.                                                            *)
(***************************************************************************)
EXTENDS Integers, Sequences, FiniteSets, TLC

(***************************************************************************)
(* Bounds of the model.                                                    *)
(***************************************************************************)
\* the longest upstream listing of a region, in non-empty pages
MaxPages == 2
\* the largest page cap tried (caps run from -1 to MaxCap, and None)
MaxCap == 2
\* the most failing HTTP answers the search API gives in one run
MaxHttpFaults == 3
\* the longest batch handed to save_to_database directly
MaxBatch == 2
\* the most storage errors injected in one run
MaxDbFaults == 3
\* the most failing answers the reverse-geocoding API gives in one run
MaxGeoFaults == 3
\* the longest coordinates_list handed to batch_geocode
MaxCoords == 2
\* the most failing HTTP answers the search API gives in one parallel run
ParallelHttpFaults == 1

(***************************************************************************)
(* Values.                                                                 *)
(***************************************************************************)
\* Python's None, for fields that hold strings
None == "None"
\* Optional[int]: <<>> is None, <<n>> is the integer n
NoneInt == <<>>
SomeInt(n) == <<n>>

Ids == {"a", "b", "c"}
Latitudes == {"44.5", "45.5"}
Longitudes == {"-110.5"}

\* a raw listing of the search API: data[i] with its id and attributes
RawListing(id, lat, lon) == [id |-> id, latitude |-> lat, longitude |-> lon]

\* a validated Campground
Campground(id, lat, lon, address) ==
    [id |-> id, latitude |-> lat, longitude |-> lon, address |-> address]

\* the absence of a row in the campgrounds table
NoRow == [id |-> None, latitude |-> None, longitude |-> None, address |-> None]

SeqsUpTo(S, n) == UNION { [1..k -> S] : k \in 0..n }

Min(a, b) == IF a <= b THEN a ELSE b


(***************************************************************************)
(* State.                                                                  *)
(***************************************************************************)
VARIABLES
    \* inputs and environment
    regions,          \* regions[r]: the upstream's non-empty pages for bbox r
    max_pages,        \* the page cap: NoneInt or SomeInt(n)
    max_workers,      \* parallel_scrape_regions / batch_geocode max_workers
    httpFaults,       \* failing search-API answers still to come
    dbFaults,         \* storage errors still to come
    geoFaults,        \* failing geocoding-API answers still to come
    \* one scrape_region call (a region task) per r
    pc,               \* where task r is
    fetch,            \* scrape_region / get_campgrounds locals of the fetch loop
    proc,             \* scrape_region locals of the processing loop
    save,             \* save_to_database locals and its session
    saveLog,          \* the triples save_to_database returned to task r
    result,           \* what scrape_region returned: <<>> until it returns
    \* the campgrounds table, and what it held when the run began
    store, store0,
    \* the geocoder
    geocoding_cache,  \* key -> address, None where the key is not in the dict
    cache_lock,       \* the caller that holds cache_lock, Unlocked when none does
    geo,              \* one get_address_from_coordinates call per caller
    geoLog,           \* per key: the upstream requests made, the values returned
    \* parallel_scrape_regions
    mainPc, totals, collected, failed_regions,
    \* batch_geocode
    coordinates_list, results, batchPc,
    \* update_addresses_task: where it is, and the rows its query loaded
    updatePc, updateRows,
    \* the totals of the same regions scraped one after another, kept for
    \* the comparison with the parallel run: <<>> until that run is over
    seqTotals

envVars == <<regions, max_pages, max_workers, store0, seqTotals>>
taskVars == <<pc, fetch, proc, save, saveLog, result>>
geoVars == <<geocoding_cache, cache_lock, geo, geoLog, geoFaults>>
mainVars == <<mainPc, totals, collected, failed_regions>>
batchVars == <<coordinates_list, results, batchPc, updatePc, updateRows>>
vars == <<regions, max_pages, max_workers, httpFaults, dbFaults, geoFaults,
          pc, fetch, proc, save, saveLog, result, store,
          geocoding_cache, cache_lock, geo, geoLog,
          mainPc, totals, collected, failed_regions,
          coordinates_list, results, batchPc, updatePc, updateRows,
          store0, seqTotals>>

Tasks == DOMAIN pc

(***************************************************************************)
(* The search API and get_campgrounds.                                     *)
(***************************************************************************)
\* what one HTTP request of get_campgrounds can meet
Response(status) == [kind |-> "response", status |-> status]
\* requests.get raises a RequestException (connection error, timeout)
ConnectionError == [kind |-> "neterr", status |-> 0]
\* a 200 whose JSON body is not an object: .get("data") raises AttributeError
BadBody == [kind |-> "badbody", status |-> 200]

HttpStatuses == {200, 302, 404, 429, 500}
HttpOutcomes == { Response(s) : s \in HttpStatuses } \cup {ConnectionError, BadBody}
Ok200 == Response(200)

\* the upstream's answer to page p of region r: data[] of the 200 response
PageData(r, p) == IF p \in 1..Len(regions[r]) THEN regions[r][p] ELSE <<>>

max_retries == 3

IsClientError(status) == 400 <= status /\ status < 500

\* a variant in which a 4xx is handled like a server error
NonRetryableMut(status) == FALSE

\* a 4xx other than 429 ends the call at once
NonRetryable(status) == IsClientError(status) /\ status # 429

\* a variant of the while condition that allows one attempt more
RetriesLeftMut(retries) == retries <= max_retries

\* the while condition of get_campgrounds
RetriesLeft(retries) == retries < max_retries

\* the backoff before the next attempt
WaitTime(retries) == 2 * retries

\* One iteration of get_campgrounds's while loop, the request answered by o
\* and the page holding data. exit: "return" value, "continue" the loop (or
\* leave it and return [] when no retry is left), or "raise".
GcIteration(retries, o, data) ==
    IF o = Ok200
      THEN [retries |-> retries, slept |-> <<>>, exit |-> "return", value |-> data]
    ELSE IF o.kind = "badbody"
      \* except Exception: return []
      THEN [retries |-> retries, slept |-> <<>>, exit |-> "return", value |-> <<>>]
    ELSE IF o.kind = "neterr"
      \* except RequestException: retries += 1, then the log line names
      \* MAX_retries, which is not defined: NameError leaves the handler
      THEN [retries |-> retries + 1, slept |-> <<>>, exit |-> "raise", value |-> <<>>]
    ELSE IF NonRetryable(o.status)
      THEN [retries |-> retries + 1, slept |-> <<>>, exit |-> "return", value |-> <<>>]
    ELSE [retries |-> retries + 1,
          slept |-> <<WaitTime(retries + 1)>>,
          exit |-> IF RetriesLeft(retries + 1) THEN "continue" ELSE "return",
          value |-> <<>>]

\* a variant with the test inverted: `if data: break`
NoDataMut(data) == data # <<>>

\* `if not data: break`
NoData(data) == data = <<>>

\* a variant that skips a page
NextPageMut(page) == page + 2

\* `page += 1`
NextPage(page) == page + 1

\* `if max_pages is not None and page > max_pages: break`, page already advanced
CapReached(page) == max_pages # NoneInt /\ page > max_pages[1]

\* the fetch loop's locals before the first call
FetchInit ==
    [page |-> 1, retries |-> 0, raw_campgrounds |-> <<>>,
     \* history of the calls, for the properties
     calls |-> 0, open |-> FALSE, hist |-> <<>>, sleeps |-> <<>>,
     ret |-> [kind |-> "none", value |-> <<>>], askedPage |-> 0]

ProcInit == [i |-> 1, final_campgrounds |-> <<>>, processing_errors |-> 0]

SaveIdle ==
    [db |-> "none", campgrounds |-> <<>>, idx |-> 1, db_retries |-> 0,
     inserted_count |-> 0, updated_count |-> 0, error_count |-> 0,
     \* the session: what it has staged, and the row as its SELECT loaded it
     pending |-> "none", loaded |-> NoRow, attempts |-> 0]

\* a variant that forgets the listings fetched before the exception
EmptyResultMut(raw) == <<0, 0, 0, 0>>

\* scrape_region's return on the `except Exception` path and on an empty region
EmptyResult(raw) == <<Len(raw), 0, 0, 0>>

\* One HTTP request of get_campgrounds by task r and everything scrape_region
\* does with the call's return before the next request.
Fetch(r) ==
    /\ pc[r] = "fetch"
    /\ \E o \in HttpOutcomes :
        /\ o # Ok200 => httpFaults > 0
        /\ httpFaults' = IF o = Ok200 THEN httpFaults ELSE httpFaults - 1
        /\ LET f == fetch[r]
               retries0 == IF f.open THEN f.retries ELSE 0
               data == PageData(r, f.page)
               it == GcIteration(retries0, o, data)
               \* the call's history
               h == [f EXCEPT !.calls = IF f.open THEN @ ELSE @ + 1,
                              !.hist = (IF f.open THEN @ ELSE <<>>) \o <<o>>,
                              !.sleeps = (IF f.open THEN @ ELSE <<>>) \o it.slept,
                              !.askedPage = f.page,
                              !.retries = it.retries]
           IN
           IF it.exit = "continue"
             THEN /\ fetch' = [fetch EXCEPT ![r] = [h EXCEPT !.open = TRUE]]
                  /\ UNCHANGED <<pc, result>>
           ELSE IF it.exit = "raise"
             \* the NameError reaches scrape_region's `except Exception`
             THEN /\ fetch' = [fetch EXCEPT ![r] =
                        [h EXCEPT !.open = FALSE,
                                  !.ret = [kind |-> "raised", value |-> <<>>]]]
                  /\ pc' = [pc EXCEPT ![r] = "done"]
                  /\ result' = [result EXCEPT ![r] = EmptyResult(f.raw_campgrounds)]
           ELSE
             LET ret == [kind |-> "data", value |-> it.value]
                 g == [h EXCEPT !.open = FALSE, !.ret = ret]
             IN
             IF NoData(it.value)
               THEN /\ fetch' = [fetch EXCEPT ![r] = g]
                    /\ pc' = [pc EXCEPT ![r] = "process"]
                    /\ UNCHANGED result
               ELSE /\ fetch' = [fetch EXCEPT ![r] =
                          [g EXCEPT !.raw_campgrounds = @ \o it.value,
                                    !.page = NextPage(@)]]
                    /\ pc' = [pc EXCEPT ![r] =
                          IF CapReached(NextPage(f.page)) THEN "process" ELSE "fetch"]
                    /\ UNCHANGED result
    /\ UNCHANGED <<envVars, dbFaults, proc, save, saveLog, store, geoVars,
                   mainVars, batchVars>>

(***************************************************************************)
(* The reverse geocoder: get_address_from_coordinates.                     *)
(***************************************************************************)
MAX_RETRIES == 3

\* cache_lock = Lock(): nobody holds it
Unlocked == 0

Keys == Latitudes \X Longitudes

\* what one request to the reverse-geocoding API can meet
GeoFound == "found"            \* 200 with display_name
GeoNoResult == "noresult"      \* 200 without display_name
GeoHttpError == "httperror"    \* a status other than 200
GeoNetError == "neterror"      \* requests.RequestException
GeoUnexpected == "unexpected"  \* any other exception
GeoOutcomes == {GeoFound, GeoNoResult, GeoHttpError, GeoNetError, GeoUnexpected}

\* the display_name the API holds for a coordinate pair
DisplayName(key) == "addr1"

GeoIdle == [pc |-> "idle", key |-> <<None, None>>, retries |-> 0, ret |-> None,
            slept |-> 0, requests |-> 0,
            \* what the last request met, for the properties
            answer |-> "none"]

GeoLogInit == [k \in Keys |-> [calls |-> 0, requests |-> 0, returned |-> {}]]

\* `cache_key in geocoding_cache`
InCache(cache, key) == key \in DOMAIN cache

\* a variant of the write that drops the entries of the other pairs
CachePutMut(cache, key, address) == [k \in {key} |-> address]

\* geocoding_cache[cache_key] = address
CachePut(cache, key, address) ==
    [k \in DOMAIN cache \cup {key} |-> IF k = key THEN address ELSE cache[k]]

\* a variant that takes a 200 answer without display_name for a failure
TransientMut(o) == o \in {GeoHttpError, GeoNetError, GeoNoResult}

\* the answers after which the loop sleeps and tries again: a status other
\* than 200, or a RequestException
Transient(o) == o \in {GeoHttpError, GeoNetError}

\* a variant of the while condition that allows one request more
GeoRetriesLeftMut(retries) == retries <= MAX_RETRIES

\* the while condition of get_address_from_coordinates
GeoRetriesLeft(retries) == retries < MAX_RETRIES

\* a variant that stores the failure for the pair when the retries run out
CacheAfterExhaustionMut(cache, key) == CachePut(cache, key, None)

\* the cache after the retries ran out: the loop is left and None is
\* returned, nothing is stored for the pair
CacheAfterExhaustion(cache, key) == cache

\* a variant of the entry that never looks the pair up
GeoEnterMut(cache, key) == [GeoIdle EXCEPT !.pc = "request", !.key = key]

\* The entry of get_address_from_coordinates: the cache lookup under
\* cache_lock. A hit returns at once; a miss goes on to the request loop.
GeoEnter(cache, key) ==
    IF InCache(cache, key)
      THEN [GeoIdle EXCEPT !.pc = "returned", !.key = key, !.ret = cache[key]]
      ELSE [GeoIdle EXCEPT !.pc = "request", !.key = key]

\* a call for key has been entered / has returned value
LogCall(log, key) == [log EXCEPT ![key].calls = @ + 1]
LogReturn(log, key, value) == [log EXCEPT ![key].returned = @ \cup {value}]
LogEnter(log, g) ==
    IF g.pc = "returned" THEN LogReturn(LogCall(log, g.key), g.key, g.ret)
    ELSE LogCall(log, g.key)

\* One iteration of the request loop of caller c: the pacing sleep, the
\* request, and what follows its answer.
GeoRequest(c) ==
    /\ geo[c].pc = "request"
    /\ \E o \in GeoOutcomes :
        /\ o # GeoFound => geoFaults > 0
        /\ geoFaults' = IF o = GeoFound THEN geoFaults ELSE geoFaults - 1
        /\ LET g == geo[c]
               key == g.key
               \* time.sleep(RATE_LIMIT_DELAY), then requests.get
               g1 == [g EXCEPT !.slept = @ + 1, !.requests = @ + 1, !.answer = o]
               log1 == [geoLog EXCEPT ![key].requests = @ + 1]
               returns(value, gg) ==
                   /\ geo' = [geo EXCEPT ![c] = [gg EXCEPT !.pc = "returned",
                                                          !.ret = value]]
                   /\ geoLog' = LogReturn(log1, key, value)
           IN
           IF o = GeoFound
             THEN /\ geocoding_cache' = CachePut(geocoding_cache, key, DisplayName(key))
                  /\ returns(DisplayName(key), g1)
           ELSE IF o = GeoUnexpected
             THEN /\ returns(None, g1)
                  /\ UNCHANGED geocoding_cache
           ELSE IF ~Transient(o)
             \* retries += 1, status is 200: "No address found", return None
             THEN /\ returns(None, [g1 EXCEPT !.retries = @ + 1])
                  /\ UNCHANGED geocoding_cache
           ELSE
             \* a status other than 200, or a RequestException:
             \* retries += 1, sleep(RATE_LIMIT_DELAY * (retries + 1)), loop
             LET g2 == [g1 EXCEPT !.retries = @ + 1, !.slept = @ + 1] IN
             IF GeoRetriesLeft(g2.retries)
               THEN /\ geo' = [geo EXCEPT ![c] = g2]
                    /\ geoLog' = log1
                    /\ UNCHANGED geocoding_cache
               ELSE /\ returns(None, g2)
                    /\ geocoding_cache' = CacheAfterExhaustion(geocoding_cache, key)
    /\ UNCHANGED <<envVars, httpFaults, dbFaults, cache_lock, taskVars, store,
                   mainVars, batchVars>>

(***************************************************************************)
(* The same call with cache_lock spelled out: the two `with cache_lock:`   *)
(* blocks are entered and left in steps of their own, so that the calls of *)
(* several pool workers interleave around them.                            *)
(***************************************************************************)
\* a variant of the lock that admits a caller while another holds it
LockFreeMut(lock) == TRUE

\* cache_lock.acquire() goes ahead: a threading.Lock has one holder
LockFree(lock) == lock = Unlocked

\* the callers inside one of the two `with cache_lock:` blocks
InCriticalSection(c) == geo[c].pc \in {"lookup", "store"}

\* `with cache_lock:` before the lookup: caller c takes the lock
AcquireForLookup(c) ==
    /\ geo[c].pc = "enter"
    /\ LockFree(cache_lock)
    /\ cache_lock' = c
    /\ geo' = [geo EXCEPT ![c].pc = "lookup"]
    /\ UNCHANGED <<envVars, httpFaults, dbFaults, geoFaults, geocoding_cache,
                   geoLog, taskVars, store, mainVars, batchVars>>

\* `if cache_key in geocoding_cache: return geocoding_cache[cache_key]`,
\* and the lock is released on the way out of the block
Lookup(c) ==
    /\ geo[c].pc = "lookup"
    /\ LET g == GeoEnter(geocoding_cache, geo[c].key) IN
       /\ geo' = [geo EXCEPT ![c] = g]
       /\ geoLog' = LogEnter(geoLog, g)
    /\ cache_lock' = Unlocked
    /\ UNCHANGED <<envVars, httpFaults, dbFaults, geoFaults, geocoding_cache,
                   taskVars, store, mainVars, batchVars>>

\* One iteration of the request loop, outside the lock. An iteration that
\* yields no address is GeoRequest's; one that yields display_name goes on
\* to the second `with cache_lock:`.
GeoRequestUnlocked(c) ==
    \/ /\ GeoRequest(c)
       /\ geo'[c].ret = None
    \/ /\ geo[c].pc = "request"
       /\ geo' = [geo EXCEPT ![c].slept = @ + 1, ![c].requests = @ + 1,
                             ![c].answer = GeoFound, ![c].pc = "acquire"]
       /\ geoLog' = [geoLog EXCEPT ![geo[c].key].requests = @ + 1]
       /\ UNCHANGED <<envVars, httpFaults, dbFaults, geoFaults, geocoding_cache,
                      cache_lock, taskVars, store, mainVars, batchVars>>

\* `with cache_lock:` before the cache write: caller c takes the lock
AcquireForStore(c) ==
    /\ geo[c].pc = "acquire"
    /\ LockFree(cache_lock)
    /\ cache_lock' = c
    /\ geo' = [geo EXCEPT ![c].pc = "store"]
    /\ UNCHANGED <<envVars, httpFaults, dbFaults, geoFaults, geocoding_cache,
                   geoLog, taskVars, store, mainVars, batchVars>>

\* geocoding_cache[cache_key] = address, the lock is released, and the
\* address is returned
Store(c) ==
    /\ geo[c].pc = "store"
    /\ LET key == geo[c].key IN
       /\ geocoding_cache' = CachePut(geocoding_cache, key, DisplayName(key))
       /\ geo' = [geo EXCEPT ![c].pc = "returned", ![c].ret = DisplayName(key)]
       /\ geoLog' = LogReturn(geoLog, key, DisplayName(key))
    /\ cache_lock' = Unlocked
    /\ UNCHANGED <<envVars, httpFaults, dbFaults, geoFaults, taskVars, store,
                   mainVars, batchVars>>

(***************************************************************************)
(* process_campground and the processing loop of scrape_region.            *)
(***************************************************************************)
\* Campground(**campground_dict) accepts the listing: id is a string
ValidCampground(raw) == raw.id # None

\* the listing asks for a geocoder call
HasCoordinates(raw) == raw.latitude # None /\ raw.longitude # None

\* process_campground's return for raw, its address resolved to address:
\* <<c>> for a Campground c, <<>> for None
ProcessCampground(raw, address) ==
    IF ValidCampground(raw)
      THEN <<Campground(raw.id, raw.latitude, raw.longitude, address)>>
      ELSE <<>>

\* a variant of the loop body that does not count a listing it drops
ProcessedMut(p, raw, address) ==
    LET c == ProcessCampground(raw, address) IN
    [p EXCEPT !.i = @ + 1, !.final_campgrounds = @ \o c]

\* the body of the processing loop after process_campground returned
Processed(p, raw, address) ==
    LET c == ProcessCampground(raw, address) IN
    IF c # <<>>
      THEN [p EXCEPT !.i = @ + 1, !.final_campgrounds = @ \o c]
      ELSE [p EXCEPT !.i = @ + 1, !.processing_errors = @ + 1]

\* Task r calls process_campground on its next raw listing; a listing with
\* coordinates enters the geocoder (the cache lookup).
ProcessListing(r) ==
    /\ pc[r] = "process"
    /\ geo[r].pc = "idle"
    /\ proc[r].i <= Len(fetch[r].raw_campgrounds)
    /\ LET raw == fetch[r].raw_campgrounds[proc[r].i] IN
       IF HasCoordinates(raw)
         THEN LET g == GeoEnter(geocoding_cache, <<raw.latitude, raw.longitude>>) IN
              /\ geoLog' = LogEnter(geoLog, g)
              /\ IF g.pc = "returned"
                   THEN /\ proc' = [proc EXCEPT ![r] = Processed(@, raw, g.ret)]
                        /\ UNCHANGED geo
                   ELSE /\ geo' = [geo EXCEPT ![r] = g]
                        /\ UNCHANGED proc
         ELSE /\ proc' = [proc EXCEPT ![r] = Processed(@, raw, None)]
              /\ UNCHANGED <<geo, geoLog>>
    /\ UNCHANGED <<envVars, httpFaults, dbFaults, geoFaults, geocoding_cache, cache_lock,
                   pc, fetch, save, saveLog, result, store, mainVars, batchVars>>

\* The geocoder has returned to process_campground in task r.
ProcessGeocoded(r) ==
    /\ pc[r] = "process"
    /\ geo[r].pc = "returned"
    /\ proc' = [proc EXCEPT ![r] =
          Processed(@, fetch[r].raw_campgrounds[proc[r].i], geo[r].ret)]
    /\ geo' = [geo EXCEPT ![r] = GeoIdle]
    /\ UNCHANGED <<envVars, httpFaults, dbFaults, geoFaults, geocoding_cache,
                   cache_lock, geoLog,
                   pc, fetch, save, saveLog, result, store, mainVars, batchVars>>

(***************************************************************************)
(* save_to_database and the campgrounds table.                             *)
(***************************************************************************)
max_db_retries == 3

\* what a statement sent to the database can meet
DbOk == "ok"
DbSqlError == "SQLAlchemyError"    \* a transient storage error
DbOtherError == "Exception"        \* any exception that is no SQLAlchemyError
DbOutcomes == {DbOk, DbSqlError, DbOtherError}

\* a variant of the lookup that never finds the row
QueryFirstMut(st, id) == NoRow

\* db.query(CampgroundDB).filter(CampgroundDB.id == id).first(): the committed row
QueryFirst(st, id) == st[id]

\* the row written for a campground
RowOf(c) == c

\* save_to_database entered with campgrounds: SessionLocal(), the counters at 0
SaveEnter(campgrounds) ==
    [SaveIdle EXCEPT !.db = "open", !.campgrounds = campgrounds]

\* the for loop moves to the next campground
NextRecord(s) ==
    [s EXCEPT !.idx = @ + 1, !.db_retries = 0, !.pending = "none",
              !.loaded = NoRow, !.attempts = 0]

\* a variant in which the batch is one transaction: the rollback also takes
\* back the rows committed for the earlier records of the batch
RollbackMut(st, s) ==
    [id \in DOMAIN st |->
        IF \E i \in 1..(s.idx - 1) : s.campgrounds[i].id = id
          THEN store0[id] ELSE st[id]]

\* the table after db.rollback(): the session's uncommitted insert or update
\* is discarded, what earlier commits wrote is kept
Rollback(st, s) == st

\* a variant that gives up one failure later
OnSqlErrorMut(s) ==
    LET t == [s EXCEPT !.pending = "none", !.loaded = NoRow,
                       !.db_retries = @ + 1] IN
    IF t.db_retries > max_db_retries
      THEN NextRecord([t EXCEPT !.error_count = @ + 1])
      ELSE t

\* `except SQLAlchemyError`: rollback, db_retries += 1, and either the record
\* is counted as an error (the while loop ends) or the attempt is repeated
OnSqlError(s) ==
    LET t == [s EXCEPT !.pending = "none", !.loaded = NoRow,
                       !.db_retries = @ + 1] IN
    IF t.db_retries >= max_db_retries
      THEN NextRecord([t EXCEPT !.error_count = @ + 1])
      ELSE t

\* `except Exception`: rollback, error_count += 1, break
OnOtherError(s) == NextRecord([s EXCEPT !.pending = "none", !.error_count = @ + 1])

\* the first half of an attempt, after the SELECT answered: the row is
\* updated in the session or a new one is added to it, and counted
Staged(s, existing) ==
    IF existing # NoRow
      THEN [s EXCEPT !.pending = "update", !.loaded = existing,
                     !.updated_count = @ + 1]
      ELSE [s EXCEPT !.pending = "insert", !.inserted_count = @ + 1]

\* the INSERT the flush sends is rejected: another session has committed a
\* row with this primary key since the SELECT
IntegrityError(st, s) ==
    s.pending = "insert" /\ st[s.campgrounds[s.idx].id] # NoRow

\* The row the flush of a commit leaves for campground c. An INSERT writes
\* every column. The UPDATE of a loaded row sets the columns whose assigned
\* value differs from the value the session loaded; the other columns are
\* not in the statement and keep what the table holds.
Flushed(row, s, c) ==
    IF s.pending = "insert" THEN RowOf(c)
    ELSE [f \in DOMAIN row |->
            IF RowOf(c)[f] # s.loaded[f] THEN RowOf(c)[f] ELSE row[f]]

\* the for loop has run through the batch
BatchDone(s) == s.idx > Len(s.campgrounds)

\* save_to_database's return value
SaveReturn(s) == <<s.inserted_count, s.updated_count, s.error_count>>

\* a variant with one session shared by the workers: what the step of one
\* worker leaves staged in it is what every worker finds staged
SessionsMut(sv, r, s) ==
    [q \in DOMAIN sv |->
        IF q = r THEN s
        ELSE [sv[q] EXCEPT !.pending = s.pending, !.loaded = s.loaded]]

\* the sessions after a step of worker r that left its locals s: db is a
\* local of the call, made by its own SessionLocal()
Sessions(sv, r, s) == [sv EXCEPT ![r] = s]

\* where task r goes after a step of save_to_database that left its locals s:
\* the next statement, or `finally: db.close()` and the return
SaveStep(r, s, next) ==
    IF BatchDone(s)
      THEN /\ save' = Sessions(save, r, [s EXCEPT !.db = "closed"])
           /\ saveLog' = [saveLog EXCEPT ![r] = Append(@, SaveReturn(s))]
           /\ pc' = [pc EXCEPT ![r] = "saved"]
      ELSE /\ save' = Sessions(save, r, s)
           /\ pc' = [pc EXCEPT ![r] = next]
           /\ UNCHANGED saveLog

\* The SELECT of one attempt for the current campground, and the staging of
\* the insert or update in the session.
SaveQuery(r) ==
    /\ pc[r] = "query"
    /\ \E o \in DbOutcomes :
        /\ o # DbOk => dbFaults > 0
        /\ dbFaults' = IF o = DbOk THEN dbFaults ELSE dbFaults - 1
        /\ LET s == [save[r] EXCEPT !.attempts = @ + 1]
               c == s.campgrounds[s.idx]
           IN
           IF o = DbOk
             THEN /\ SaveStep(r, Staged(s, QueryFirst(store, c.id)), "commit")
                  /\ UNCHANGED store
           ELSE IF o = DbSqlError
             THEN /\ SaveStep(r, OnSqlError(s), "query")
                  /\ store' = Rollback(store, s)
           ELSE /\ SaveStep(r, OnOtherError(s), "query")
                /\ store' = Rollback(store, s)
    /\ UNCHANGED <<envVars, httpFaults, geoVars, fetch, proc, result,
                   mainVars, batchVars>>

\* db.commit() of one attempt: the flush sends the INSERT or UPDATE, which
\* the primary key rejects when another session has committed the id since.
SaveCommit(r) ==
    /\ pc[r] = "commit"
    /\ \E o \in DbOutcomes :
        /\ o # DbOk => dbFaults > 0
        /\ dbFaults' = IF o = DbOk THEN dbFaults ELSE dbFaults - 1
        /\ LET s == save[r]
               c == s.campgrounds[s.idx]
           IN
           IF o = DbOk /\ ~IntegrityError(store, s)
             THEN /\ store' = [store EXCEPT ![c.id] = Flushed(@, s, c)]
                  /\ SaveStep(r, NextRecord(s), "query")
           ELSE IF o = DbOk \/ o = DbSqlError
             \* IntegrityError is an SQLAlchemyError
             THEN /\ SaveStep(r, OnSqlError(s), "query")
                  /\ store' = Rollback(store, s)
           ELSE /\ SaveStep(r, OnOtherError(s), "query")
                /\ store' = Rollback(store, s)
    /\ UNCHANGED <<envVars, httpFaults, geoVars, fetch, proc, result,
                   mainVars, batchVars>>

(***************************************************************************)
(* scrape_region: the end of the processing loop and the return.           *)
(***************************************************************************)
\* a variant that reports the records kept as the listings found
RegionResultMut(raw, final, saved) == <<Len(final), Len(final), saved[1], saved[2]>>

\* the tuple scrape_region returns after save_to_database
RegionResult(raw, final, saved) == <<Len(raw), Len(final), saved[1], saved[2]>>

\* a variant that leaves the processing loop with listings still to come
ProcessingOverMut(i, raw) == TRUE

\* `for raw_data in raw_campgrounds:` has run through the list
ProcessingOver(i, raw) == i > Len(raw)

\* The processing loop is over: `if final_campgrounds:` calls
\* save_to_database, else the region returns with nothing processed.
FinishProcessing(r) ==
    /\ pc[r] = "process"
    /\ geo[r].pc = "idle"
    /\ ProcessingOver(proc[r].i, fetch[r].raw_campgrounds)
    /\ IF proc[r].final_campgrounds # <<>>
         THEN /\ save' = [save EXCEPT ![r] = SaveEnter(proc[r].final_campgrounds)]
              /\ pc' = [pc EXCEPT ![r] = "query"]
              /\ UNCHANGED result
         ELSE /\ result' = [result EXCEPT ![r] = EmptyResult(fetch[r].raw_campgrounds)]
              /\ pc' = [pc EXCEPT ![r] = "done"]
              /\ UNCHANGED save
    /\ UNCHANGED <<envVars, httpFaults, dbFaults, geoVars, fetch, proc, saveLog,
                   store, mainVars, batchVars>>

\* save_to_database has returned to scrape_region, which returns its tuple.
ScrapeReturn(r) ==
    /\ pc[r] = "saved"
    /\ result' = [result EXCEPT ![r] =
          RegionResult(fetch[r].raw_campgrounds, proc[r].final_campgrounds,
                       saveLog[r][Len(saveLog[r])])]
    /\ pc' = [pc EXCEPT ![r] = "done"]
    /\ UNCHANGED <<envVars, httpFaults, dbFaults, geoVars, fetch, proc, save,
                   saveLog, store, mainVars, batchVars>>

\* A caller hands the same campgrounds to save_to_database once more.
SaveAgain(r) ==
    /\ pc[r] = "saved"
    /\ Len(saveLog[r]) < 2
    /\ save' = [save EXCEPT ![r] = SaveEnter(save[r].campgrounds)]
    /\ pc' = [pc EXCEPT ![r] = "query"]
    /\ UNCHANGED <<envVars, httpFaults, dbFaults, geoVars, fetch, proc, saveLog,
                   result, store, mainVars, batchVars>>

(***************************************************************************)
(* parallel_scrape_regions.                                                *)
(***************************************************************************)
\* a variant that sizes the pool by the number of regions alone
actual_workersMut == Len(regions)

\* actual_workers = min(max_workers, len(regions))
actual_workers == Min(max_workers, Len(regions))

\* the tasks a pool worker is running: a future is done once scrape_region
\* has returned ("done") or raised ("raised")
Running == { r \in Tasks : pc[r] \notin {"pending", "done", "raised"} }

\* element-wise sum of two 4-tuples
Plus(t, u) == <<t[1] + u[1], t[2] + u[2], t[3] + u[3], t[4] + u[4]>>

\* a variant of the pool that never runs the task submitted last
TaskStartMut(r) ==
    /\ mainPc = "running"
    /\ pc[r] = "pending"
    /\ r < Len(regions)
    /\ \A q \in Tasks : q < r => pc[q] # "pending"
    /\ Cardinality(Running) < actual_workers
    /\ pc' = [pc EXCEPT ![r] = "fetch"]
    /\ UNCHANGED <<envVars, httpFaults, dbFaults, geoVars, fetch, proc, save,
                   saveLog, result, store, mainVars, batchVars>>

\* A pool worker takes the next submitted task: scrape_region(region, max_pages).
TaskStart(r) ==
    /\ mainPc = "running"
    /\ pc[r] = "pending"
    /\ \A q \in Tasks : q < r => pc[q] # "pending"
    /\ Cardinality(Running) < actual_workers
    /\ pc' = [pc EXCEPT ![r] = "fetch"]
    /\ UNCHANGED <<envVars, httpFaults, dbFaults, geoVars, fetch, proc, save,
                   saveLog, result, store, mainVars, batchVars>>

\* a variant of the collection loop that may take a finished future again
CollectAgainMut(r) ==
    /\ mainPc = "running"
    /\ pc[r] \in {"done", "raised"}
    /\ IF pc[r] = "raised"
         THEN /\ failed_regions' = failed_regions \cup {r}
              /\ UNCHANGED totals
         ELSE /\ totals' = Plus(totals, result[r])
              /\ UNCHANGED failed_regions
    /\ collected' = collected \cup {r}
    /\ mainPc' = IF collected' = Tasks THEN "returned" ELSE "running"
    /\ UNCHANGED <<envVars, httpFaults, dbFaults, geoVars, taskVars, store,
                   batchVars>>

\* a variant of the collection loop that stops at the first region whose
\* task met an exception
CollectMut(r) ==
    /\ mainPc = "running"
    /\ pc[r] \in {"done", "raised"}
    /\ r \notin collected
    /\ IF pc[r] = "raised"
         THEN /\ failed_regions' = failed_regions \cup {r}
              /\ UNCHANGED totals
         ELSE /\ totals' = Plus(totals, result[r])
              /\ UNCHANGED failed_regions
    /\ collected' = collected \cup {r}
    /\ mainPc' = IF collected' = Tasks \/ fetch[r].ret.kind = "raised"
                   THEN "returned" ELSE "running"
    /\ UNCHANGED <<envVars, httpFaults, dbFaults, geoVars, taskVars, store,
                   batchVars>>

\* as_completed yields the future of task r: future.result() gives its tuple,
\* which is added to the totals, or raises, which puts the region in
\* failed_regions; after the last one parallel_scrape_regions returns the totals.
Collect(r) ==
    /\ mainPc = "running"
    /\ pc[r] \in {"done", "raised"}
    /\ r \notin collected
    /\ IF pc[r] = "raised"
         THEN /\ failed_regions' = failed_regions \cup {r}
              /\ UNCHANGED totals
         ELSE /\ totals' = Plus(totals, result[r])
              /\ UNCHANGED failed_regions
    /\ collected' = collected \cup {r}
    /\ mainPc' = IF collected' = Tasks THEN "returned" ELSE "running"
    /\ UNCHANGED <<envVars, httpFaults, dbFaults, geoVars, taskVars, store,
                   batchVars>>

(***************************************************************************)
(* batch_geocode.                                                          *)
(***************************************************************************)
Jobs == DOMAIN coordinates_list

\* the workers of batch_geocode's pool that are inside a call
BatchRunning == { j \in Jobs : geo[j].pc = "request" }

\* A pool worker takes the next submitted lookup and enters
\* get_address_from_coordinates with its coordinate pair.
BatchStart(j) ==
    /\ batchPc = "running"
    /\ geo[j].pc = "queued"
    /\ \A q \in Jobs : q < j => geo[q].pc # "queued"
    /\ Cardinality(BatchRunning) < max_workers
    /\ LET g == GeoEnter(geocoding_cache, coordinates_list[j]) IN
       /\ geo' = [geo EXCEPT ![j] = g]
       /\ geoLog' = LogEnter(geoLog, g)
    /\ UNCHANGED <<envVars, httpFaults, dbFaults, geoFaults, geocoding_cache, cache_lock,
                   taskVars, store, mainVars, batchVars>>

\* a variant that returns results as soon as one lookup has been collected
BatchCollectMut(j) ==
    /\ batchPc = "running"
    /\ geo[j].pc = "returned"
    /\ results' = CachePut(results, coordinates_list[j], geo[j].ret)
    /\ geo' = [geo EXCEPT ![j].pc = "collected"]
    /\ batchPc' = "returned"
    /\ UNCHANGED <<envVars, httpFaults, dbFaults, geoFaults, geocoding_cache,
                   cache_lock, geoLog, taskVars, store, mainVars,
                   coordinates_list, updatePc, updateRows>>

\* as_completed yields the future of lookup j: results[coords] = address;
\* after the last one batch_geocode returns results.
BatchCollect(j) ==
    /\ batchPc = "running"
    /\ geo[j].pc = "returned"
    /\ results' = CachePut(results, coordinates_list[j], geo[j].ret)
    /\ geo' = [geo EXCEPT ![j].pc = "collected"]
    /\ batchPc' = IF \A q \in Jobs : geo'[q].pc = "collected"
                    THEN "returned" ELSE "running"
    /\ UNCHANGED <<envVars, httpFaults, dbFaults, geoFaults, geocoding_cache, cache_lock,
                   geoLog, taskVars, store, mainVars, coordinates_list,
                   updatePc, updateRows>>

(***************************************************************************)
(* update_addresses_task: the deferred enrichment of stored rows.          *)
(***************************************************************************)
\* the order in which the table hands out its rows
IdOrder == <<"a", "b", "c">>

\* the rows the query selects: no address, both coordinates, at most limit
NeedAddress(st, limit) ==
    LET need(id) == /\ st[id] # NoRow
                    /\ st[id].address = None
                    /\ st[id].latitude # None
                    /\ st[id].longitude # None
        ids == SelectSeq(IdOrder, need)
    IN [i \in 1..Min(limit, Len(ids)) |-> st[ids[i]]]

\* `if coord_key in addresses and addresses[coord_key]`
HasAddress(addresses, coord_key) ==
    InCache(addresses, coord_key) /\ addresses[coord_key] # None

\* a variant of the write-back that deletes a row no address was found for
WriteBackMut(st, rows, coords, addresses) ==
    [id \in DOMAIN st |->
        IF \E i \in DOMAIN rows : rows[i].id = id
          THEN LET i == CHOOSE i \in DOMAIN rows : rows[i].id = id IN
               IF HasAddress(addresses, coords[i])
                 THEN [rows[i] EXCEPT !.address = addresses[coords[i]]]
                 ELSE NoRow
          ELSE st[id]]

\* the table after the loop over the loaded rows and the commit: a row whose
\* coordinates got an address has it written, every other row is as it was
WriteBack(st, rows, coords, addresses) ==
    [id \in DOMAIN st |->
        IF \E i \in DOMAIN rows :
              rows[i].id = id /\ HasAddress(addresses, coords[i])
          THEN LET i == CHOOSE i \in DOMAIN rows : rows[i].id = id IN
               [st[id] EXCEPT !.address = addresses[coords[i]]]
          ELSE st[id]]

\* update_addresses_task(limit, max_workers) runs its query, builds
\* coords_list and calls batch_geocode, which submits one lookup per pair.
UpdateAddressesQuery ==
    /\ updatePc = "none"
    /\ \A r \in Tasks : pc[r] = "done"
    /\ \E o \in {DbOk, DbSqlError}, limit \in 1..MaxCoords :
        IF o = DbOk
          THEN LET rows == NeedAddress(store, limit)
                   coords == [i \in DOMAIN rows |->
                                 <<rows[i].latitude, rows[i].longitude>>]
               IN
               /\ updateRows' = rows
               /\ coordinates_list' = coords
               /\ geo' = [j \in DOMAIN coords |-> [GeoIdle EXCEPT !.pc = "queued"]]
               /\ results' = <<>>
               /\ batchPc' = IF coords = <<>> THEN "returned" ELSE "running"
               /\ updatePc' = "geocoding"
          \* the query raises: rollback, close, {"success": False}
          ELSE /\ updatePc' = "failed"
               /\ UNCHANGED <<updateRows, coordinates_list, geo, results, batchPc>>
    /\ UNCHANGED <<envVars, httpFaults, dbFaults, geoFaults, geocoding_cache,
                   cache_lock, geoLog,
                   pc, fetch, proc, save, saveLog, result, store, mainVars>>

\* batch_geocode has returned: the addresses found are set on the loaded
\* rows and all of them are committed at once; a failing commit is rolled
\* back.
UpdateAddressesCommit ==
    /\ updatePc = "geocoding"
    /\ batchPc = "returned"
    /\ \E o \in {DbOk, DbSqlError} :
        IF o = DbOk
          THEN /\ store' = WriteBack(store, updateRows, coordinates_list, results)
               /\ updatePc' = "returned"
          ELSE /\ updatePc' = "failed"
               /\ UNCHANGED store
    /\ UNCHANGED <<envVars, httpFaults, dbFaults, geoVars, taskVars, mainVars,
                   coordinates_list, results, batchPc, updateRows>>

(***************************************************************************)
(* Inputs.                                                                 *)
(***************************************************************************)
\* listings of the upstream: with coordinates, without, and without an id
Listing_a == RawListing("a", "44.5", "-110.5")
Listing_b == RawListing("b", None, None)
Listing_c == RawListing("c", "44.5", "-110.5")
Listing_x == RawListing(None, None, None)

\* the non-empty pages a region is made of
PageCatalog == {<<Listing_a>>, <<Listing_b, Listing_x>>, <<Listing_c, Listing_b>>}

\* the upstream listings of one region: up to MaxPages non-empty pages
RegionCatalog == SeqsUpTo(PageCatalog, MaxPages)

\* the page caps tried
Caps == {NoneInt} \cup { SomeInt(n) : n \in (0 - 1)..MaxCap }

EmptyStore == [id \in Ids |-> NoRow]

\* the table before a run: empty, or holding a row for "a"
StoreCatalog ==
    {EmptyStore, [EmptyStore EXCEPT !["a"] = Campground("a", None, None, None)]}

\* the campgrounds handed to save_to_database directly
SaveRecords == { Campground(id, None, None, a) : id \in Ids, a \in {None, "addr1"} }

\* n region tasks in phase p, nothing fetched yet
TasksInit(n, p) ==
    /\ pc = [r \in 1..n |-> p]
    /\ fetch = [r \in 1..n |-> FetchInit]
    /\ proc = [r \in 1..n |-> ProcInit]
    /\ save = [r \in 1..n |-> SaveIdle]
    /\ saveLog = [r \in 1..n |-> <<>>]
    /\ result = [r \in 1..n |-> <<>>]
    /\ geo = [r \in 1..n |-> GeoIdle]

NoParallel ==
    /\ mainPc = "none"
    /\ totals = <<0, 0, 0, 0>>
    /\ collected = {}
    /\ failed_regions = {}

NoBatch ==
    /\ coordinates_list = <<>>
    /\ results = <<>>
    /\ batchPc = "none"
    /\ updatePc = "none"
    /\ updateRows = <<>>

(***************************************************************************)
(* SpecRegion: one call scrape_region(bbox, max_pages).                    *)
(***************************************************************************)
InitRegion ==
    /\ regions \in { <<pages>> : pages \in RegionCatalog }
    /\ max_pages \in Caps
    /\ max_workers = 1
    /\ httpFaults = MaxHttpFaults
    /\ dbFaults = 0
    /\ geoFaults = MaxGeoFaults
    /\ TasksInit(1, "fetch")
    /\ store \in StoreCatalog
    /\ store0 = store
    /\ seqTotals = <<>>
    /\ geocoding_cache = <<>>
    /\ geoLog = GeoLogInit
    /\ cache_lock = Unlocked
    /\ NoParallel
    /\ NoBatch

NextRegion ==
    \/ \E r \in Tasks : Fetch(r)
    \/ \E r \in Tasks : ProcessListing(r)
    \/ \E r \in Tasks : GeoRequest(r)
    \/ \E r \in Tasks : ProcessGeocoded(r)
    \/ \E r \in Tasks : FinishProcessing(r)
    \/ \E r \in Tasks : SaveQuery(r)
    \/ \E r \in Tasks : SaveCommit(r)
    \/ \E r \in Tasks : ScrapeReturn(r)

SpecRegion == InitRegion /\ [][NextRegion]_vars

\* SpecPhase: one scrape_region call that its thread keeps running, over an
\* empty table, with no page cap or a cap of one page.
InitPhase ==
    /\ InitRegion
    /\ max_pages \in {NoneInt, SomeInt(1)}
    /\ store = EmptyStore

SpecPhase == InitPhase /\ [][NextRegion]_vars /\ WF_vars(NextRegion)

\* SpecFaulty: one scrape_region call whose upstream and whose storage both
\* fail: HTTP failures while fetching, storage errors while saving.
InitFaulty ==
    /\ regions \in { <<pages>> : pages \in RegionCatalog }
    /\ max_pages \in {NoneInt, SomeInt(1)}
    /\ max_workers = 1
    /\ httpFaults = ParallelHttpFaults
    /\ dbFaults = MaxDbFaults
    /\ geoFaults = 0
    /\ TasksInit(1, "fetch")
    /\ store \in StoreCatalog
    /\ store0 = store
    /\ seqTotals = <<>>
    /\ geocoding_cache = <<>>
    /\ geoLog = GeoLogInit
    /\ cache_lock = Unlocked
    /\ NoParallel
    /\ NoBatch

SpecFaulty == InitFaulty /\ [][NextRegion]_vars

(***************************************************************************)
(* SpecSave: save_to_database(campgrounds), called twice on one batch.     *)
(***************************************************************************)
InitSave ==
    /\ regions = << <<>> >>
    /\ max_pages = NoneInt
    /\ max_workers = 1
    /\ httpFaults = 0
    /\ dbFaults = MaxDbFaults
    /\ geoFaults = 0
    /\ pc = <<"query">>
    /\ fetch = <<FetchInit>>
    /\ proc = <<ProcInit>>
    /\ \E batch \in SeqsUpTo(SaveRecords, MaxBatch) \ {<<>>} :
          save = <<SaveEnter(batch)>>
    /\ saveLog = << <<>> >>
    /\ result = << <<>> >>
    /\ geo = <<GeoIdle>>
    /\ store \in StoreCatalog
    /\ store0 = store
    /\ seqTotals = <<>>
    /\ geocoding_cache = <<>>
    /\ geoLog = GeoLogInit
    /\ cache_lock = Unlocked
    /\ NoParallel
    /\ NoBatch

NextSave ==
    \/ \E r \in Tasks : SaveQuery(r)
    \/ \E r \in Tasks : SaveCommit(r)
    \/ \E r \in Tasks : SaveAgain(r)

SpecSave == InitSave /\ [][NextSave]_vars

(***************************************************************************)
(* Spec: parallel_scrape_regions(regions, max_pages, max_workers).         *)
(***************************************************************************)
\* the regions of a parallel run: few listings, ids shared between regions
ParallelCatalog ==
    { << <<Listing_b>> >>, << <<Listing_b, Listing_x>> >>, << <<Listing_a>> >>, <<>>,
      << <<Listing_b>>, <<Listing_x>> >> }

Init ==
    /\ regions \in [1..2 -> ParallelCatalog]
    /\ max_pages \in {NoneInt, SomeInt(1)}
    /\ max_workers \in 1..3
    /\ httpFaults = ParallelHttpFaults
    /\ dbFaults = 0
    /\ geoFaults = 0
    /\ TasksInit(2, "pending")
    /\ store \in StoreCatalog
    /\ store0 = store
    /\ seqTotals = <<>>
    /\ geocoding_cache = <<>>
    /\ geoLog = GeoLogInit
    /\ cache_lock = Unlocked
    /\ mainPc = "running"
    /\ totals = <<0, 0, 0, 0>>
    /\ collected = {}
    /\ failed_regions = {}
    /\ NoBatch

Next ==
    \/ \E r \in Tasks : TaskStart(r)
    \/ NextRegion
    \/ \E r \in Tasks : Collect(r)

Spec == Init /\ [][Next]_vars

\* A run without a page cap on an empty table, with the pool's threads and
\* the collecting thread scheduled: the run does not stop while a step can
\* be taken.
InitLive == Init /\ max_pages = NoneInt /\ store = EmptyStore

SpecLive == InitLive /\ [][Next]_vars /\ WF_vars(Next)

\* SpecTerm: a run over an empty table, with or without a page cap, with
\* the pool's threads and the collecting thread scheduled.
InitTerm == Init /\ store = EmptyStore /\ max_workers \in 1..2

SpecTerm == InitTerm /\ [][Next]_vars /\ WF_vars(Next)

(***************************************************************************)
(* SpecGeo: batch_geocode(coordinates_list, max_workers).                  *)
(***************************************************************************)
InitGeo ==
    /\ regions = <<>>
    /\ max_pages = NoneInt
    /\ max_workers \in 1..2
    /\ httpFaults = 0
    /\ dbFaults = 0
    /\ geoFaults = MaxGeoFaults
    /\ pc = <<>>
    /\ fetch = <<>>
    /\ proc = <<>>
    /\ save = <<>>
    /\ saveLog = <<>>
    /\ result = <<>>
    /\ store = EmptyStore
    /\ store0 = store
    /\ seqTotals = <<>>
    /\ geocoding_cache = <<>>
    /\ geoLog = GeoLogInit
    /\ cache_lock = Unlocked
    /\ NoParallel
    /\ coordinates_list \in SeqsUpTo(Keys, MaxCoords) \ {<<>>}
    /\ geo = [j \in DOMAIN coordinates_list |-> [GeoIdle EXCEPT !.pc = "queued"]]
    /\ results = <<>>
    /\ batchPc = "running"
    /\ updatePc = "none"
    /\ updateRows = <<>>

NextGeo ==
    \/ \E j \in Jobs : BatchStart(j)
    \/ \E j \in Jobs : GeoRequest(j)
    \/ \E j \in Jobs : BatchCollect(j)

SpecGeo == InitGeo /\ [][NextGeo]_vars

(***************************************************************************)
(* SpecLock: the pool workers of batch_geocode are all inside              *)
(* get_address_from_coordinates at once, with cache_lock spelled out.      *)
(***************************************************************************)
InitLock ==
    /\ regions = <<>>
    /\ max_pages = NoneInt
    /\ coordinates_list \in SeqsUpTo(Keys, MaxCoords) \ {<<>>}
    /\ max_workers = Len(coordinates_list)
    /\ httpFaults = 0
    /\ dbFaults = 0
    /\ geoFaults = MaxGeoFaults
    /\ pc = <<>>
    /\ fetch = <<>>
    /\ proc = <<>>
    /\ save = <<>>
    /\ saveLog = <<>>
    /\ result = <<>>
    /\ store = EmptyStore
    /\ store0 = store
    /\ seqTotals = <<>>
    /\ geocoding_cache = <<>>
    /\ geoLog = GeoLogInit
    /\ cache_lock = Unlocked
    /\ NoParallel
    /\ geo = [j \in DOMAIN coordinates_list |->
                [GeoIdle EXCEPT !.pc = "enter", !.key = coordinates_list[j]]]
    /\ results = <<>>
    /\ batchPc = "running"
    /\ updatePc = "none"
    /\ updateRows = <<>>

NextLock ==
    \/ \E j \in Jobs : AcquireForLookup(j)
    \/ \E j \in Jobs : Lookup(j)
    \/ \E j \in Jobs : GeoRequestUnlocked(j)
    \/ \E j \in Jobs : AcquireForStore(j)
    \/ \E j \in Jobs : Store(j)
    \/ \E j \in Jobs : BatchCollect(j)

SpecLock == InitLock /\ [][NextLock]_vars

(***************************************************************************)
(* SpecEnrich: one region is scraped, its listings geocoded inline, and    *)
(* then update_addresses_task runs over the rows left without an address.  *)
(***************************************************************************)
\* regions whose listings have coordinates, two of them the same pair
EnrichCatalog ==
    { << <<Listing_a>> >>, << <<Listing_c, Listing_b>> >>,
      << <<Listing_a>>, <<Listing_c, Listing_b>> >> }

InitEnrich ==
    /\ regions \in { <<pages>> : pages \in EnrichCatalog }
    /\ max_pages = NoneInt
    /\ max_workers \in 1..2
    /\ httpFaults = 0
    /\ dbFaults = 0
    /\ geoFaults = MaxGeoFaults
    /\ TasksInit(1, "fetch")
    /\ store \in StoreCatalog
    /\ store0 = store
    /\ seqTotals = <<>>
    /\ geocoding_cache = <<>>
    /\ geoLog = GeoLogInit
    /\ cache_lock = Unlocked
    /\ NoParallel
    /\ NoBatch

NextEnrich ==
    \/ \E r \in Tasks : Fetch(r)
    \/ \E r \in Tasks : ProcessListing(r)
    \/ \E r \in Tasks : pc[r] = "process" /\ GeoRequest(r)
    \/ \E r \in Tasks : ProcessGeocoded(r)
    \/ \E r \in Tasks : FinishProcessing(r)
    \/ \E r \in Tasks : SaveQuery(r)
    \/ \E r \in Tasks : SaveCommit(r)
    \/ \E r \in Tasks : ScrapeReturn(r)
    \/ UpdateAddressesQuery
    \/ \E j \in Jobs : BatchStart(j)
    \/ \E j \in Jobs : updatePc = "geocoding" /\ GeoRequest(j)
    \/ \E j \in Jobs : BatchCollect(j)
    \/ UpdateAddressesCommit

SpecEnrich == InitEnrich /\ [][NextEnrich]_vars

(***************************************************************************)
(* SpecUpsert: a parallel run over two regions that list the same          *)
(* campground, the geocoder failing for some of the lookups.               *)
(***************************************************************************)
\* regions that share an id, one of them listing it twice
UpsertCatalog ==
    { << <<Listing_a>> >>, << <<Listing_a, Listing_a>> >>, << <<Listing_c>> >> }

InitUpsert ==
    /\ regions \in [1..2 -> UpsertCatalog]
    /\ max_pages = NoneInt
    /\ max_workers \in 1..2
    /\ httpFaults = 0
    /\ dbFaults = 0
    /\ geoFaults = MaxGeoFaults
    /\ TasksInit(2, "pending")
    /\ store \in StoreCatalog
    /\ store0 = store
    /\ seqTotals = <<>>
    /\ geocoding_cache = <<>>
    /\ geoLog = GeoLogInit
    /\ cache_lock = Unlocked
    /\ mainPc = "running"
    /\ totals = <<0, 0, 0, 0>>
    /\ collected = {}
    /\ failed_regions = {}
    /\ NoBatch

SpecUpsert == InitUpsert /\ [][Next]_vars

(***************************************************************************)
(* SpecExhaust: a parallel run in which the search API fails often enough  *)
(* to use up the retries of one get_campgrounds call.                      *)
(***************************************************************************)
InitExhaust ==
    /\ regions \in [1..2 -> { << <<Listing_b>> >>, <<>> }]
    /\ max_pages = NoneInt
    /\ max_workers \in 1..2
    /\ httpFaults = max_retries
    /\ dbFaults = 0
    /\ geoFaults = 0
    /\ TasksInit(2, "pending")
    /\ store = EmptyStore
    /\ store0 = store
    /\ seqTotals = <<>>
    /\ geocoding_cache = <<>>
    /\ geoLog = GeoLogInit
    /\ cache_lock = Unlocked
    /\ mainPc = "running"
    /\ totals = <<0, 0, 0, 0>>
    /\ collected = {}
    /\ failed_regions = {}
    /\ NoBatch

\* no listing of these regions has coordinates: the geocoder is never entered
NextExhaust ==
    \/ \E r \in Tasks : TaskStart(r)
    \/ \E r \in Tasks : Fetch(r)
    \/ \E r \in Tasks : ProcessListing(r)
    \/ \E r \in Tasks : FinishProcessing(r)
    \/ \E r \in Tasks : SaveQuery(r)
    \/ \E r \in Tasks : SaveCommit(r)
    \/ \E r \in Tasks : ScrapeReturn(r)
    \/ \E r \in Tasks : Collect(r)

SpecExhaust == InitExhaust /\ [][NextExhaust]_vars

(***************************************************************************)
(* SpecEquiv: the regions are scraped one after another (one worker), the  *)
(* totals are kept, the table and the cache are put back as they were, and *)
(* the same regions are scraped by parallel_scrape_regions with more       *)
(* workers. The upstream and the storage never fail.                       *)
(***************************************************************************)
InitEquiv ==
    /\ regions \in [1..2 -> ParallelCatalog]
    /\ max_pages \in {NoneInt, SomeInt(1)}
    /\ max_workers = 1
    /\ httpFaults = 0
    /\ dbFaults = 0
    /\ geoFaults = 0
    /\ TasksInit(2, "pending")
    /\ store \in StoreCatalog
    /\ store0 = store
    /\ seqTotals = <<>>
    /\ geocoding_cache = <<>>
    /\ geoLog = GeoLogInit
    /\ cache_lock = Unlocked
    /\ mainPc = "running"
    /\ totals = <<0, 0, 0, 0>>
    /\ collected = {}
    /\ failed_regions = {}
    /\ NoBatch

\* The sequential run is over: its totals are kept and the parallel run of
\* the same regions starts from the same table.
RunParallel ==
    /\ seqTotals = <<>>
    /\ mainPc = "returned"
    /\ seqTotals' = totals
    /\ max_workers' \in 2..3
    /\ store' = store0
    /\ geocoding_cache' = <<>>
    /\ geoLog' = GeoLogInit
    /\ pc' = [r \in Tasks |-> "pending"]
    /\ fetch' = [r \in Tasks |-> FetchInit]
    /\ proc' = [r \in Tasks |-> ProcInit]
    /\ save' = [r \in Tasks |-> SaveIdle]
    /\ saveLog' = [r \in Tasks |-> <<>>]
    /\ result' = [r \in Tasks |-> <<>>]
    /\ geo' = [r \in Tasks |-> GeoIdle]
    /\ mainPc' = "running"
    /\ totals' = <<0, 0, 0, 0>>
    /\ collected' = {}
    /\ UNCHANGED <<regions, max_pages, store0, httpFaults, dbFaults, geoFaults,
                   cache_lock, failed_regions, batchVars>>

NextEquiv == Next \/ RunParallel

SpecEquiv == InitEquiv /\ [][NextEquiv]_vars

(***************************************************************************)
(* Properties.                                                             *)
(***************************************************************************)
IdsOf(batch) == { batch[i].id : i \in DOMAIN batch }
DistinctIds(batch) == Cardinality(IdsOf(batch)) = Len(batch)
RowsFor(ids) == { id \in ids : store[id] # NoRow }

\* the batch of task r is N records with distinct ids, none of them in the
\* table when the run began, and no storage error has happened
FreshBatch(r) ==
    /\ DistinctIds(save[r].campgrounds)
    /\ \A id \in IdsOf(save[r].campgrounds) : store0[id] = NoRow
    /\ dbFaults = MaxDbFaults

\* C1 (SpecSave). Idempotent persistence: for N valid records with distinct
\* ids, none of them stored at the start, and no storage error, the first
\* save_to_database call returns inserted = N, updated = 0, the second call
\* on the same records returns inserted = 0, updated = N, and after each
\* call the table holds exactly N rows for those ids.
C1_IdempotentPersistence ==
    \A r \in Tasks :
        LET batch == save[r].campgrounds
            N == Len(batch)
        IN FreshBatch(r) =>
            /\ Len(saveLog[r]) >= 1 => saveLog[r][1] = <<N, 0, 0>>
            /\ Len(saveLog[r]) >= 2 => saveLog[r][2] = <<0, N, 0>>
            /\ pc[r] = "saved" => Cardinality(RowsFor(IdsOf(batch))) = N

\* two distinct fresh records have been saved twice
C1_Witness ==
    \E r \in Tasks :
        /\ FreshBatch(r)
        /\ Len(save[r].campgrounds) = 2
        /\ Len(saveLog[r]) = 2
        /\ pc[r] = "saved"

\* C2 (SpecSave). Count conservation: whatever storage errors happen, the
\* triple save_to_database returns satisfies
\* inserted + updated + errors = number of records in the batch.
C2_CountConservation ==
    \A r \in Tasks :
        \A k \in DOMAIN saveLog[r] :
            saveLog[r][k][1] + saveLog[r][k][2] + saveLog[r][k][3]
                = Len(save[r].campgrounds)

\* C3 (SpecGeo). Cache correctness: when get_address_from_coordinates is
\* called more than once with the same coordinate pair, at most one upstream
\* request is made for the pair and all the calls return the same address.
C3_CacheCorrectness ==
    \A key \in Keys :
        geoLog[key].calls > 1 =>
            /\ geoLog[key].requests <= 1
            /\ Cardinality(geoLog[key].returned) <= 1

\* C4 (SpecEquiv). Parallel/sequential equivalence: the tuple (found,
\* processed, inserted, updated) parallel_scrape_regions returns equals the
\* sum of the tuples scrape_region returns for the same regions run one
\* after another from the same table.
C4_ParallelEqualsSequential ==
    (seqTotals # <<>> /\ mainPc = "returned") => totals = seqTotals

\* the last get_campgrounds call of task r was answered 200 with no listing
EmptyPageSeen(r) ==
    /\ ~fetch[r].open
    /\ fetch[r].hist # <<>>
    /\ fetch[r].hist[Len(fetch[r].hist)] = Ok200
    /\ fetch[r].ret = [kind |-> "data", value |-> <<>>]

\* C5 (SpecRegion). Pagination termination: with P non-empty pages followed
\* by an empty page, the fetch loop makes at most P + 1 calls to
\* get_campgrounds and requests no page after the first empty one.
C5_PaginationTermination ==
    \A r \in Tasks :
        /\ fetch[r].calls <= Len(regions[r]) + 1
        /\ EmptyPageSeen(r) =>
              /\ pc[r] # "fetch"
              /\ fetch[r].askedPage = Len(regions[r]) + 1
              /\ fetch[r].calls = fetch[r].askedPage

\* the loop ran through every page of a region of MaxPages pages
C5_Witness ==
    \E r \in Tasks :
        /\ EmptyPageSeen(r)
        /\ Len(regions[r]) = MaxPages
        /\ fetch[r].calls = MaxPages + 1
        /\ pc[r] = "done"

\* C6 (SpecRegion). Page cap: whenever max_pages is set, for every integer
\* value of it, scrape_region makes at most max_pages calls to
\* get_campgrounds (none at all when the cap is zero or negative).
C6_PageCap ==
    \A r \in Tasks :
        max_pages # NoneInt =>
            fetch[r].calls <= (IF max_pages[1] > 0 THEN max_pages[1] ELSE 0)

\* for caps of at least one page the bound holds
C6_PositiveCap ==
    \A r \in Tasks :
        (max_pages # NoneInt /\ max_pages[1] >= 1) => fetch[r].calls <= max_pages[1]

\* a 5xx or 429 answer
ServerErrorOr429(o) ==
    /\ o.kind = "response"
    /\ (o.status = 429 \/ (500 <= o.status /\ o.status < 600))

\* C7 (SpecRegion). Fetch retry bound: a get_campgrounds call answered 5xx
\* or 429 K times and then 200 returns the 200 answer's listings if K < 3;
\* answered 5xx or 429 three times it returns the empty list; in every case
\* the call makes at most 3 HTTP requests.
C7_FetchRetryBound ==
    \A r \in Tasks :
        LET f == fetch[r]
            n == Len(f.hist)
        IN
        /\ n <= 3
        /\ (/\ ~f.open
            /\ n >= 1
            /\ f.hist[n] = Ok200
            /\ \A i \in 1..(n - 1) : ServerErrorOr429(f.hist[i]))
           => /\ n - 1 < 3
              /\ f.ret = [kind |-> "data", value |-> PageData(r, f.askedPage)]
        /\ (/\ n >= 3
            /\ \A i \in 1..3 : ServerErrorOr429(f.hist[i]))
           => /\ ~f.open
              /\ f.ret = [kind |-> "data", value |-> <<>>]

\* a call answered with two server errors and then listings
C7_Witness ==
    \E r \in Tasks :
        /\ ~fetch[r].open
        /\ Len(fetch[r].hist) = 3
        /\ ServerErrorOr429(fetch[r].hist[1])
        /\ ServerErrorOr429(fetch[r].hist[2])
        /\ fetch[r].hist[3] = Ok200
        /\ fetch[r].ret.value # <<>>

\* the last get_campgrounds call of task r used up its retries
RetriesExhausted(r) ==
    /\ ~fetch[r].open
    /\ Len(fetch[r].hist) = 3
    /\ \A i \in 1..3 : ServerErrorOr429(fetch[r].hist[i])

\* C8 (SpecExhaust). Recorded fetch failure: a region one of whose page
\* fetches used up its retries is reported as failed in the result of the
\* run, which tells it from a region whose data was exhausted.
C8_RecordedFetchFailure ==
    mainPc = "returned" =>
        \A r \in Tasks : RetriesExhausted(r) => r \in failed_regions

\* C9 (SpecRegion). Network-error retry: a get_campgrounds call whose
\* request fails with a network error does not raise to its caller; it
\* sleeps 2 x attempt seconds and retries, up to 3 attempts.
C9_NetworkErrorRetry ==
    \A r \in Tasks :
        LET f == fetch[r] IN
        \A i \in DOMAIN f.hist :
            f.hist[i] = ConnectionError =>
                /\ f.ret.kind # "raised"
                /\ Len(f.sleeps) >= i
                /\ f.sleeps[i] = 2 * i
                /\ (i < 3 => (f.open \/ Len(f.hist) > i))

\* a 4xx answer other than 429
ClientErrorNot429(o) ==
    /\ o.kind = "response"
    /\ 400 <= o.status /\ o.status < 500
    /\ o.status # 429

\* C10 (SpecRegion). Non-retryable client error: a 4xx answer other than 429
\* ends the get_campgrounds call with the empty list after that one request,
\* with no retry and no backoff sleep, and scrape_region stops paginating.
C10_ClientErrorNotRetried ==
    \A r \in Tasks :
        LET f == fetch[r] IN
        \A i \in DOMAIN f.hist :
            ClientErrorNot429(f.hist[i]) =>
                /\ i = Len(f.hist)
                /\ ~f.open
                /\ f.ret = [kind |-> "data", value |-> <<>>]
                /\ Len(f.sleeps) = i - 1
                /\ pc[r] # "fetch"

\* the second page of a region was answered 500 and then 404
C10_Witness ==
    \E r \in Tasks :
        /\ fetch[r].askedPage = 2
        /\ Len(fetch[r].hist) = 2
        /\ fetch[r].hist[1] = Response(500)
        /\ fetch[r].hist[2] = Response(404)
        /\ fetch[r].raw_campgrounds # <<>>
        /\ pc[r] = "done"

\* the positions among the first n raw listings whose id is missing
MissingId(raw, n) == { i \in 1..n : raw[i].id = None }

\* C11 (SpecRegion). Validation drop: a raw listing without an id gives no
\* record: it is in neither final_campgrounds nor the batch handed to
\* save_to_database, it is counted in processing_errors, the tuple
\* scrape_region returns has found - processed = the number of such listings
\* and inserted + updated = the number of the others, and every row of the
\* table is stored under its own id.
C11_ValidationDrop ==
    /\ \A r \in Tasks :
        LET raw == fetch[r].raw_campgrounds
            p == proc[r]
            dropped == Cardinality(MissingId(raw, p.i - 1))
            missing == Cardinality(MissingId(raw, Len(raw)))
        IN
        /\ \A i \in DOMAIN p.final_campgrounds : p.final_campgrounds[i].id \in Ids
        /\ \A i \in DOMAIN save[r].campgrounds : save[r].campgrounds[i].id \in Ids
        /\ p.processing_errors = dropped
        /\ Len(p.final_campgrounds) = (p.i - 1) - dropped
        /\ (pc[r] = "done" /\ fetch[r].ret.kind # "raised") =>
              /\ result[r][1] - result[r][2] = missing
              /\ result[r][3] + result[r][4] = Len(raw) - missing
    /\ \A id \in DOMAIN store : store[id] # NoRow => store[id].id = id

\* a region with a listing without an id has been processed and saved
C11_Witness ==
    \E r \in Tasks :
        /\ pc[r] = "done"
        /\ MissingId(fetch[r].raw_campgrounds, Len(fetch[r].raw_campgrounds)) # {}
        /\ result[r][1] - result[r][2] = 1
        /\ result[r][3] + result[r][4] >= 1

\* the task of region r met an exception, which scrape_region caught
TaskFailed(r) == fetch[r].ret.kind = "raised"

\* what the steps task q took itself make scrape_region return
OwnResult(q) ==
    IF TaskFailed(q) \/ proc[q].final_campgrounds = <<>>
      THEN EmptyResult(fetch[q].raw_campgrounds)
      ELSE RegionResult(fetch[q].raw_campgrounds, proc[q].final_campgrounds,
                        saveLog[q][Len(saveLog[q])])

\* the sum of the tuples of a set of tasks
RECURSIVE SumResults(_)
SumResults(S) ==
    IF S = {} THEN <<0, 0, 0, 0>>
    ELSE LET q == CHOOSE x \in S : TRUE IN Plus(result[q], SumResults(S \ {q}))

\* the run is over and every region has run to its end and been added
AllRegionsCounted ==
    /\ mainPc = "returned"
    /\ collected = Tasks
    /\ \A q \in Tasks : pc[q] = "done" /\ result[q] = OwnResult(q)
    /\ totals = SumResults(Tasks)

\* C12 (SpecLive). Region failure isolation: once the task of one region has
\* met an exception, the run still comes to its end with every other region
\* run to completion, its tuple what its own fetch, processing and saving
\* give, and the tuples of all the regions added into the totals.
C12_RegionFailureIsolation ==
    (\E r \in Tasks : TaskFailed(r)) ~> AllRegionsCounted

\* one region failed and the run returned totals that hold a row saved by
\* the other region
C12_Witness ==
    /\ AllRegionsCounted
    /\ \E r \in Tasks : TaskFailed(r)
    /\ \E q \in Tasks : ~TaskFailed(q) /\ result[q][3] + result[q][4] >= 1
    /\ totals[3] + totals[4] >= 1

\* C13 (Spec). Failed regions are reported: when parallel_scrape_regions has
\* returned, the regions in failed_regions are exactly those whose task
\* ended through an exception: each of them is reported as failed, and no
\* region that completed normally is.
C13_FailedRegionsReported ==
    mainPc = "returned" =>
        \A r \in Tasks : TaskFailed(r) <=> r \in failed_regions

\* call c of get_address_from_coordinates has returned
GeoReturned(c) == geo[c].pc \in {"returned", "collected"}

\* call c gave up after MAX_RETRIES failed requests and returned None
GeoExhausted(c) ==
    /\ GeoReturned(c)
    /\ geo[c].ret = None
    /\ geo[c].retries = MAX_RETRIES
    /\ geo[c].requests = MAX_RETRIES

Kept(r, raw) ==
    \E k \in DOMAIN proc[r].final_campgrounds :
        LET c == proc[r].final_campgrounds[k] IN
        /\ c.id = raw.id
        /\ c.latitude = raw.latitude
        /\ c.longitude = raw.longitude
        /\ c.address \in {None, DisplayName(<<raw.latitude, raw.longitude>>)}

\* C15 (SpecEnrich). Geocode failure tolerance. Inline: every listing with
\* an id that has been processed is in final_campgrounds whatever the
\* geocoder returned for it, with a null address when it returned None, and
\* has a row once the region is saved. Deferred: every row
\* update_addresses_task loaded stays in the table with its id and
\* coordinates, its address null unless batch_geocode gave an address for
\* its coordinates and the commit succeeded.
C15_GeocodeFailureTolerance ==
    /\ \A r \in Tasks :
        LET raw == fetch[r].raw_campgrounds IN
        /\ \A i \in 1..(proc[r].i - 1) : raw[i].id # None => Kept(r, raw[i])
        /\ (pc[r] = "process" /\ geo[r].pc = "returned" /\ geo[r].ret = None) =>
              ProcessCampground(raw[proc[r].i], geo[r].ret)
                  = <<Campground(raw[proc[r].i].id, raw[proc[r].i].latitude,
                                 raw[proc[r].i].longitude, None)>>
        /\ (pc[r] = "done" /\ updatePc = "none") =>
              \A k \in DOMAIN proc[r].final_campgrounds :
                  LET c == proc[r].final_campgrounds[k] IN
                  /\ store[c.id] # NoRow
                  /\ store[c.id].latitude = c.latitude
                  /\ store[c.id].longitude = c.longitude
    /\ updatePc # "none" =>
        \A i \in DOMAIN updateRows :
            LET row == updateRows[i]
                found == HasAddress(results, coordinates_list[i])
            IN
            /\ row.address = None
            /\ store[row.id] # NoRow
            /\ store[row.id].latitude = row.latitude
            /\ store[row.id].longitude = row.longitude
            /\ IF updatePc = "returned" /\ found
                 THEN store[row.id].address = results[coordinates_list[i]]
                 ELSE store[row.id] = row

\* a listing was saved with a null address after the inline geocoding
\* failed, update_addresses_task loaded its row, batch_geocode found no
\* address for it either, and the row is still there with a null address
C15_Witness ==
    /\ updatePc = "returned"
    /\ \E r \in Tasks :
          \E k \in DOMAIN proc[r].final_campgrounds :
              /\ proc[r].final_campgrounds[k].latitude # None
              /\ proc[r].final_campgrounds[k].address = None
    /\ \E i \in DOMAIN updateRows :
          /\ InCache(results, coordinates_list[i])
          /\ results[coordinates_list[i]] = None
          /\ store[updateRows[i].id] = updateRows[i]

\* the campground task r is writing
Current(r) == save[r].campgrounds[save[r].idx]

\* C16 (SpecSave). Per-record commit: a step of save_to_database that ends
\* in a storage failure (a retry or an error is counted, the attempt is
\* rolled back) changes no row of the table, and a row only ever changes by
\* the successful commit of a record with its id, to that record's values:
\* what was committed for records 1..i-1 stays whatever happens to record i.
C16_PerRecordCommit ==
    [][ /\ \A r \in Tasks :
              (\/ save'[r].db_retries > save[r].db_retries
               \/ save'[r].error_count > save[r].error_count) => store' = store
        /\ \A id \in Ids :
              store'[id] # store[id] =>
                  \E r \in Tasks :
                      /\ pc[r] = "commit"
                      /\ Current(r).id = id
                      /\ store'[id] = RowOf(Current(r))
      ]_vars

\* the first record of a batch was committed, the second failed three
\* times, and the row of the first is in the table as committed
C16_Witness ==
    \E r \in Tasks :
        /\ pc[r] = "saved"
        /\ Len(saveLog[r]) = 1
        /\ Len(save[r].campgrounds) = 2
        /\ DistinctIds(save[r].campgrounds)
        /\ save[r].error_count = 1
        /\ dbFaults = MaxDbFaults - max_db_retries
        /\ store[save[r].campgrounds[1].id] = RowOf(save[r].campgrounds[1])
        /\ store[save[r].campgrounds[2].id] = store0[save[r].campgrounds[2].id]

\* C17 (SpecSave). Persister retry and continue: save_to_database makes at
\* most 3 attempts for a record; a record leaves the loop either committed
\* or counted as exactly one error (so one whose 3 attempts all failed adds
\* exactly 1 to error_count); the loop then moves on to the next record with
\* fresh retries, and the call only returns after the last record.
C17_RetryAndContinue ==
    [][ \A r \in Tasks :
          LET s == save[r]
              t == save'[r]
              committed == /\ pc[r] = "commit"
                           /\ store'[Current(r).id] = RowOf(Current(r))
                           /\ t.error_count = s.error_count
              failed == t.error_count = s.error_count + 1 /\ store' = store
          IN
          pc[r] \in {"query", "commit"} =>
              /\ s.attempts <= max_db_retries
              /\ t.attempts <= max_db_retries
              /\ s.db_retries < max_db_retries
              /\ t.idx \in {s.idx, s.idx + 1}
              /\ t.idx = s.idx =>
                    /\ t.error_count = s.error_count
                    /\ pc'[r] \in {"query", "commit"}
              /\ t.idx = s.idx + 1 =>
                    /\ (committed \/ failed) /\ ~(committed /\ failed)
                    /\ t.attempts = 0 /\ t.db_retries = 0
                    /\ pc'[r] = (IF t.idx <= Len(t.campgrounds) THEN "query" ELSE "saved")
              /\ (s.db_retries = max_db_retries - 1 /\ t.db_retries # s.db_retries
                    /\ ~committed) => (failed /\ t.idx = s.idx + 1)
      ]_vars

\* the first record of a batch has failed three times and been counted as
\* one error, and the second record is about to be attempted
C17_Witness ==
    \E r \in Tasks :
        /\ pc[r] = "query"
        /\ Len(saveLog[r]) = 0
        /\ save[r].idx = 2
        /\ save[r].attempts = 0
        /\ save[r].error_count = 1
        /\ dbFaults = MaxDbFaults - max_db_retries

\* the step is the successful commit of the record task r is writing
Committed(r) ==
    /\ pc[r] = "commit"
    /\ save'[r].idx = save[r].idx + 1
    /\ save'[r].error_count = save[r].error_count

\* C18 (SpecUpsert). Upsert keyed by id: also for batches that hold an id
\* twice and for save_to_database calls running on two region workers, an
\* insert is committed only for an id the table does not hold (one row per
\* id), and right after the successful commit of a record the row with its
\* id carries that record's values.
C18_UpsertById ==
    [][ \A r \in Tasks :
          Committed(r) =>
              /\ save[r].pending = "insert" => store[Current(r).id] = NoRow
              /\ store'[Current(r).id] = RowOf(Current(r))
      ]_vars

\* C19 (Spec). Worker bound and dispatch, for max_workers >= 1: there is one
\* scrape_region task per entry of regions, each run once on its own entry,
\* all of them done when parallel_scrape_regions returns, and in every state
\* at most min(max_workers, number of regions) of them are running.
C19_WorkerBound ==
    /\ Tasks = DOMAIN regions
    /\ Cardinality(Running) <= Min(max_workers, Len(regions))
    /\ \A r \in Tasks :
          /\ fetch[r].calls <= Len(regions[r]) + 1
          /\ pc[r] = "pending" => fetch[r].calls = 0
    /\ mainPc = "returned" =>
          \A r \in Tasks : pc[r] = "done" /\ r \in collected /\ fetch[r].calls >= 1

\* with one worker, one region is being saved while the other still waits
C19_Witness ==
    /\ max_workers = 1
    /\ \E r, q \in Tasks : pc[r] = "commit" /\ pc[q] = "pending"

\* C20 (Spec). Sequential pagination within a region, also with other
\* regions running: the k-th get_campgrounds call of a region asks for page
\* k; a call for the next page starts only when the call before it has
\* returned, and returned listings; no page is asked for by two calls and
\* none is skipped.
C20_SequentialPagination ==
    [][ \A r \in Tasks :
          LET f == fetch[r]
              g == fetch'[r]
          IN
          /\ f.askedPage = f.calls
          /\ f.open => f.page = f.askedPage
          /\ g.askedPage \in {f.askedPage, f.askedPage + 1}
          /\ g.askedPage = f.askedPage => g.calls = f.calls
          /\ g.askedPage = f.askedPage + 1 =>
                /\ ~f.open
                /\ g.calls = f.calls + 1
                /\ f.askedPage > 0 => (f.ret.kind = "data" /\ f.ret.value # <<>>)
      ]_vars

\* a region is at its third page while the other region is fetching too
C20_Witness ==
    \E r, q \in Tasks :
        /\ r # q
        /\ fetch[r].askedPage = 3
        /\ fetch[r].calls = 3
        /\ pc[q] = "fetch"
        /\ fetch[q].calls >= 1

\* the call of caller c returned from the cache lookup, without a request
CacheHit(c) == geo[c].pc \in {"returned", "collected"} /\ geo[c].requests = 0

\* the call of caller c stored the address it returned
StoredBy(c) ==
    /\ geo[c].pc \in {"returned", "collected"}
    /\ geo[c].requests > 0
    /\ geo[c].ret # None

(***************************************************************************)
(* C21. Guarded cache access: a geocoding worker that is at a read or a   *)
(* write of the shared cache holds cache_lock, at most one worker is       *)
(* inside a cache critical section at a time, and a call that returned     *)
(* from a cache hit returned the address that a call for the same          *)
(* coordinate pair had stored in full before.                              *)
(***************************************************************************)
C21_GuardedCacheAccess ==
    /\ \A c \in Jobs : InCriticalSection(c) => cache_lock = c
    /\ Cardinality({ c \in Jobs : InCriticalSection(c) }) <= 1
    /\ \A c \in Jobs :
         CacheHit(c) =>
           \E d \in Jobs \ {c} :
              /\ StoredBy(d)
              /\ geo[d].key = geo[c].key
              /\ geo[c].ret = geo[d].ret

\* A worker holds the lock at the lookup for a coordinate pair whose address
\* another worker's call has stored: its lookup is about to hit.
C21_Witness ==
    \E c, d \in Jobs :
       /\ c # d
       /\ geo[c].pc = "lookup"
       /\ cache_lock = c
       /\ StoredBy(d)
       /\ geo[d].key = geo[c].key
       /\ InCache(geocoding_cache, geo[c].key)

\* the listings of the non-empty pages the upstream holds, in page order
RECURSIVE Upstream(_)
Upstream(pages) ==
    IF pages = <<>> THEN <<>> ELSE Head(pages) \o Upstream(Tail(pages))

\* the ids of the listings of raw that pass validation
ValidIds(raw) == { raw[i].id : i \in { k \in DOMAIN raw : raw[k].id # None } }

\* the ids the table held when the run began
StoredIds0 == { id \in DOMAIN store0 : store0[id] # NoRow }

(***************************************************************************)
(* C22. Region counts: when the fetch loop of a region reached the empty   *)
(* page after the P non-empty pages of the upstream, and no storage error  *)
(* occurred, scrape_region returns found = the sum of the page sizes,      *)
(* processed = found - D for D listings failing validation, and            *)
(* inserted + updated = processed; a run over an empty table with distinct *)
(* ids inserts them all, and a run over ids all stored already updates     *)
(* them all.                                                               *)
(***************************************************************************)
C22_RegionCounts ==
    \A r \in Tasks :
        (pc[r] = "done" /\ EmptyPageSeen(r)) =>
            LET up == Upstream(regions[r])
                D == Cardinality(MissingId(up, Len(up)))
                found == result[r][1]
                processed == result[r][2]
                inserted == result[r][3]
                updated == result[r][4]
            IN
            /\ found = Len(up)
            /\ processed = found - D
            /\ inserted + updated = processed
            /\ (StoredIds0 = {} /\ Cardinality(ValidIds(up)) = processed) =>
                  (inserted = processed /\ updated = 0)
            /\ ValidIds(up) \subseteq StoredIds0 =>
                  (inserted = 0 /\ updated = processed)

\* a region of MaxPages pages with one listing failing validation was
\* scraped to its empty page over an empty table
C22_Witness ==
    \E r \in Tasks :
        /\ pc[r] = "done"
        /\ EmptyPageSeen(r)
        /\ Len(regions[r]) = MaxPages
        /\ Cardinality(MissingId(Upstream(regions[r]), Len(Upstream(regions[r])))) = 1
        /\ result[r][1] = Len(Upstream(regions[r]))
        /\ result[r][2] = result[r][1] - 1
        /\ result[r][3] = result[r][2]
        /\ StoredIds0 = {}

\* the last get_campgrounds call of task r failed: its last request met a
\* network error or a status other than 200, and no retry followed
FetchFailedAt(r, k) ==
    LET f == fetch[r] IN
    /\ ~f.open
    /\ f.hist # <<>>
    /\ f.askedPage = k
    /\ LET last == f.hist[Len(f.hist)] IN
       \/ last = ConnectionError
       \/ (last.kind = "response" /\ last.status # 200)

\* the listings of the first n pages of the upstream of region r
FirstPages(r, n) == Upstream(SubSeq(regions[r], 1, n))

(***************************************************************************)
(* C23. Partial work survives a fetch failure: when the fetch of page      *)
(* k > 1 of a region failed (retries used up, a non-retryable 4xx, or a    *)
(* network error), the finished run has processed and persisted the        *)
(* listings of pages 1..k-1: they are the raw listings counted as found,   *)
(* processed = found - the invalid ones, inserted + updated = processed,   *)
(* and every valid one of them has its row in the table.                   *)
(***************************************************************************)
C23_PartialWorkSurvives ==
    \A r \in Tasks :
        \A k \in 2..(MaxPages + 1) :
            (pc[r] = "done" /\ FetchFailedAt(r, k)) =>
                LET part == FirstPages(r, k - 1)
                    valid == Len(part) - Cardinality(MissingId(part, Len(part)))
                IN
                /\ fetch[r].raw_campgrounds = part
                /\ result[r][1] = Len(part)
                /\ result[r][2] = valid
                /\ result[r][3] + result[r][4] = valid
                /\ \A id \in ValidIds(part) : store[id] # NoRow

\* the phases of a scrape_region run, in the order of its code
PhaseRank(p) ==
    CASE p = "pending" -> 0
      [] p = "fetch" -> 1
      [] p = "process" -> 2
      [] p \in {"query", "commit", "saved"} -> 3
      [] p = "done" -> 4

\* while task r fetches nothing is processed; until it has processed every
\* raw listing nothing is handed to save_to_database or written
PhaseSeparation(r) ==
    /\ pc[r] = "fetch" => (proc[r] = ProcInit /\ geo[r] = GeoIdle)
    /\ pc[r] \in {"fetch", "process"} =>
          (save[r] = SaveIdle /\ saveLog[r] = <<>> /\ store = store0)
    /\ pc[r] \in {"query", "commit", "saved"} =>
          /\ proc[r].i = Len(fetch[r].raw_campgrounds) + 1
          /\ save[r].campgrounds = proc[r].final_campgrounds
    /\ store # store0 => proc[r].i = Len(fetch[r].raw_campgrounds) + 1
    /\ pc[r] = "done" <=> result[r] # <<>>

\* a step of task r never leads to an earlier phase, and leaves the raw
\* listings alone once the fetch loop has ended
PhaseForward(r) ==
    /\ PhaseRank(pc'[r]) >= PhaseRank(pc[r])
    /\ pc[r] # "fetch" => fetch'[r].raw_campgrounds = fetch[r].raw_campgrounds
    /\ pc[r] \notin {"fetch", "process"} =>
          proc'[r].final_campgrounds = proc[r].final_campgrounds

(***************************************************************************)
(* C24. Region phase order: a scrape_region run goes through Fetching,     *)
(* Processing and Persisting in this order: no raw listing is processed    *)
(* before the fetch loop has ended, no record is written to the table      *)
(* before every raw listing has been processed, no step goes back to an    *)
(* earlier phase, and the run ends by returning a result.                  *)
(***************************************************************************)
C24_RegionPhaseOrder ==
    /\ [](\A r \in Tasks : PhaseSeparation(r))
    /\ [][\A r \in Tasks : PhaseForward(r)]_vars
    /\ <>[](\A r \in Tasks : pc[r] = "done" /\ result[r] # <<>>)

\* a run that fetched two pages, processed their listings and is writing
\* the second record
C24_Witness ==
    \E r \in Tasks :
        /\ pc[r] = "commit"
        /\ Len(regions[r]) = 2
        /\ fetch[r].calls = 3
        /\ proc[r].i = Len(fetch[r].raw_campgrounds) + 1
        /\ save[r].idx = 2
        /\ store # store0

\* the resolved addresses that finished calls for key have returned
ResolvedFor(key) ==
    { geo[d].ret : d \in { e \in Jobs : /\ GeoReturned(e)
                                        /\ geo[e].key = key
                                        /\ geo[e].ret # None } }

(***************************************************************************)
(* C25. Cache hit after success: a call of get_address_from_coordinates    *)
(* that starts after a call for the same coordinate pair has returned a    *)
(* resolved address returns that address at once, with no request to the   *)
(* geocoding API and no pacing sleep.                                      *)
(***************************************************************************)
C25_CacheHitAfterSuccess ==
    [][\A j \in Jobs :
          LET key == coordinates_list[j] IN
          (/\ geo[j].pc = "queued"
           /\ geo'[j].pc # "queued"
           /\ ResolvedFor(key) # {})
          => /\ geo'[j].pc = "returned"
             /\ ResolvedFor(key) = {geo'[j].ret}
             /\ geo'[j].requests = 0
             /\ geo'[j].slept = 0
             /\ geoLog'[key].requests = geoLog[key].requests]_vars

\* the second lookup of a pair began after the first had returned its
\* address, and came back with it without a request
C25_Witness ==
    \E c, d \in Jobs :
        /\ c < d
        /\ coordinates_list[c] = coordinates_list[d]
        /\ geo[c].requests >= 1
        /\ geo[c].ret = DisplayName(coordinates_list[c])
        /\ geo[d].pc = "returned"
        /\ geo[d].requests = 0
        /\ geo[d].slept = 0
        /\ geo[d].ret = geo[c].ret
        /\ geoLog[coordinates_list[c]].calls = 2
        /\ geoLog[coordinates_list[c]].requests = geo[c].requests

(***************************************************************************)
(* C26. Geocoder retry bound: a call of get_address_from_coordinates makes *)
(* at most MAX_RETRIES = 3 requests whatever the geocoding API answers:    *)
(* while it is in its loop every request so far has failed and fewer than  *)
(* 3 were made, after the third failure it has returned, and what it       *)
(* returns is the resolved address or None, never an exception.            *)
(***************************************************************************)
C26_GeocoderRetryBound ==
    \A c \in DOMAIN geo :
        /\ geo[c].requests <= MAX_RETRIES
        /\ geo[c].retries <= MAX_RETRIES
        /\ geo[c].pc = "request" =>
              (geo[c].retries = geo[c].requests /\ geo[c].requests < MAX_RETRIES)
        /\ geo[c].retries = MAX_RETRIES => GeoReturned(c)
        /\ GeoReturned(c) => geo[c].ret \in {None, DisplayName(geo[c].key)}
        /\ (GeoReturned(c) /\ geo[c].requests = 0) =>
              InCache(geocoding_cache, geo[c].key)

\* a call whose first two requests failed returned the address of the third
C26_Witness ==
    \E c \in DOMAIN geo :
        /\ geo[c].pc = "returned"
        /\ geo[c].requests = MAX_RETRIES
        /\ geo[c].retries = MAX_RETRIES - 1
        /\ geo[c].ret = DisplayName(geo[c].key)

(***************************************************************************)
(* C27. No address found: a 200 answer without display_name ends the call  *)
(* of get_address_from_coordinates with None after that request: no        *)
(* backoff sleep and no further request follow it, so a call whose first   *)
(* answer it is has made a single request, and nothing is stored for the   *)
(* pair.                                                                   *)
(***************************************************************************)
C27_NoAddressFound ==
    \A c \in DOMAIN geo :
        geo[c].answer = GeoNoResult =>
            /\ GeoReturned(c)
            /\ geo[c].ret = None
            \* one pacing sleep per request, one backoff per earlier failure
            /\ geo[c].slept = 2 * geo[c].requests - 1
            /\ geo[c].retries = 1 => geo[c].requests = 1
            /\ InCache(geocoding_cache, geo[c].key) =>
                  geocoding_cache[geo[c].key] # None

\* the API answered the first request of a call with 200 and no address;
\* the call returned None with retries to spare
C27_Witness ==
    \E c \in DOMAIN geo :
        /\ geo[c].answer = GeoNoResult
        /\ geo[c].pc = "returned"
        /\ geo[c].requests = 1
        /\ geo[c].slept = 1
        /\ geo[c].ret = None
        /\ geoFaults >= 1

\* the lookups submitted for the coordinate pair key
JobsFor(key) == { j \in Jobs : coordinates_list[j] = key }

(***************************************************************************)
(* C28. Batch geocoding result: batch_geocode returns only after every     *)
(* submitted lookup has finished and been collected; the map it returns    *)
(* has exactly the coordinate pairs of the input list as keys, and the     *)
(* value of a pair is what a single-key call for that pair returned (the   *)
(* address or None), for 1 and for 2 workers and every completion order.   *)
(***************************************************************************)
C28_BatchGeocodeResult ==
    /\ DOMAIN results =
          { coordinates_list[j] : j \in { q \in Jobs : geo[q].pc = "collected" } }
    /\ \A key \in DOMAIN results :
          /\ results[key] \in { geo[j].ret : j \in JobsFor(key) }
          /\ results[key] \in {None, DisplayName(key)}
    /\ batchPc = "returned" =>
          /\ \A j \in Jobs : geo[j].pc = "collected"
          /\ DOMAIN results = { coordinates_list[j] : j \in Jobs }
          /\ \A j \in Jobs :
                JobsFor(coordinates_list[j]) = {j} =>
                   results[coordinates_list[j]] = geo[j].ret

\* a batch of two different pairs on two workers has returned, one pair
\* resolved and the other not
C28_Witness ==
    /\ batchPc = "returned"
    /\ max_workers = 2
    /\ Len(coordinates_list) = 2
    /\ coordinates_list[1] # coordinates_list[2]
    /\ results[coordinates_list[1]] = None
    /\ results[coordinates_list[2]] = DisplayName(coordinates_list[2])
    /\ geo[2].requests >= 1

(***************************************************************************)
(* C29. Completion-order independence: at every point of a run of          *)
(* parallel_scrape_regions the running totals are the element-wise sum of  *)
(* the tuples of the region tasks collected so far, each taken once, and   *)
(* the totals it returns are the sum over all the region tasks, in         *)
(* whatever order the tasks complete.                                      *)
(***************************************************************************)
C29_CompletionOrderIndependence ==
    /\ \A r \in collected : pc[r] = "done" /\ result[r] # <<>>
    /\ totals = SumResults(collected)
    /\ mainPc = "returned" =>
          /\ collected = Tasks
          /\ totals = SumResults(Tasks)

\* the task submitted second completed first: its tuple is in the totals
\* while the task submitted first is still saving its records
C29_Witness ==
    /\ mainPc = "running"
    /\ collected = {2}
    /\ pc[1] \in {"query", "commit"}
    /\ result[2][3] + result[2][4] >= 1
    /\ totals = result[2]

(***************************************************************************)
(* C30. Orchestrator termination: with every region's upstream ending in   *)
(* an empty page, or a page cap set, and the workers scheduled fairly,     *)
(* every region task eventually finishes and parallel_scrape_regions       *)
(* eventually returns; and when it has returned, every dispatched region   *)
(* task has completed and been collected.                                  *)
(***************************************************************************)
C30_OrchestratorTermination ==
    /\ <>[](\A r \in Tasks : pc[r] = "done")
    /\ <>[](mainPc = "returned")
    /\ [](mainPc = "returned" =>
             \A r \in Tasks : pc[r] = "done" /\ r \in collected)

\* the run has returned; one region of two pages was ended by the page cap
\* after its first page, the other by its empty page
C30_Witness ==
    /\ mainPc = "returned"
    /\ max_pages = SomeInt(1)
    /\ \E r, q \in Tasks :
          /\ Len(regions[r]) = 2
          /\ fetch[r].calls = 1
          /\ fetch[r].ret.value # <<>>
          /\ Len(regions[q]) = 0
          /\ EmptyPageSeen(q)
          /\ pc[r] = "done" /\ pc[q] = "done"

\* worker r is inside save_to_database
Saving(r) == pc[r] \in {"query", "commit"}

\* the session of each worker is open exactly while its save_to_database
\* call runs, and at its commit it holds the write the worker staged
SessionOwned(r) ==
    /\ save[r].db = "open" <=> Saving(r)
    /\ pc[r] = "saved" => save[r].db = "closed"
    /\ (pc[r] = "done" /\ saveLog[r] # <<>>) => save[r].db = "closed"
    /\ pc[r] \in {"pending", "fetch", "process"} => save[r] = SaveIdle
    /\ pc[r] = "commit" => save[r].pending \in {"insert", "update"}
    /\ pc[r] = "query" => save[r].pending = "none"
    /\ save[r].pending = "update" =>
          save[r].loaded.id = save[r].campgrounds[save[r].idx].id

\* worker r rolls its session back in this step
RollsBack(r) ==
    /\ Saving(r)
    /\ \/ save'[r].error_count > save[r].error_count
       \/ save'[r].db_retries > save[r].db_retries

(***************************************************************************)
(* C31. Per-worker session: every save_to_database call has a session of   *)
(* its own, open from its entry to its return and closed after it; a step  *)
(* of one region worker changes no other worker's session, and a rollback  *)
(* on one worker leaves the table and the writes the other workers have    *)
(* staged as they are.                                                     *)
(***************************************************************************)
C31_PerWorkerSession ==
    /\ [](\A r \in Tasks : SessionOwned(r))
    /\ [][\A r \in Tasks :
            /\ save'[r] # save[r] =>
                  \A q \in Tasks \ {r} : save'[q] = save[q]
            /\ RollsBack(r) =>
                  /\ store' = store
                  /\ \A q \in Tasks \ {r} :
                        /\ save'[q].pending = save[q].pending
                        /\ pc'[q] = pc[q]]_vars

\* one worker is at its commit with a write staged while the other worker
\* has just rolled back an insert the primary key rejected
C31_Witness ==
    \E r, q \in Tasks :
        /\ r # q
        /\ pc[r] = "commit"
        /\ save[r].pending \in {"insert", "update"}
        /\ pc[q] = "query"
        /\ save[q].db_retries = 1
        /\ save[q].inserted_count = 1
        /\ save[q].pending = "none"

\* the ids whose row was created since the run began
CreatedRows == { id \in DOMAIN store : store0[id] = NoRow /\ store[id] # NoRow }

(***************************************************************************)
(* C32. Inserted count matches created rows under concurrency: when        *)
(* parallel_scrape_regions has returned, the inserted total (the sum of    *)
(* the inserted counts of the regions) is the number of rows created in    *)
(* the table during the run, also when the same id is listed by two        *)
(* regions whose workers run concurrently.                                 *)
(***************************************************************************)
C32_InsertedMatchesCreated ==
    mainPc = "returned" =>
        totals[3] = Cardinality(CreatedRows)

\* t is a tuple (found, processed, inserted, updated) of counts
IsCounts(t) == Len(t) = 4 /\ \A i \in 1..4 : t[i] \in Nat

(***************************************************************************)
(* C33. Region task never raises: whatever the upstream and the storage    *)
(* do, a scrape_region call ends by returning a 4-tuple (found, processed, *)
(* inserted, updated), never by an exception; when an exception was caught *)
(* inside it, the tuple is (raw listings fetched so far, 0, 0, 0), and     *)
(* when the storage failed the tuple still carries found and processed.    *)
(***************************************************************************)
C33_RegionTaskNeverRaises ==
    \A r \in Tasks :
        /\ pc[r] # "raised"
        /\ result[r] # <<>> <=> pc[r] = "done"
        /\ pc[r] = "done" =>
              /\ IsCounts(result[r])
              /\ result[r][1] = Len(fetch[r].raw_campgrounds)
              /\ TaskFailed(r) =>
                    result[r] = <<Len(fetch[r].raw_campgrounds), 0, 0, 0>>
              /\ ~TaskFailed(r) =>
                    result[r][2] = Len(proc[r].final_campgrounds)

\* a call whose second page fetch ended in an exception returned the one
\* listing fetched so far and zeros
C33_Witness ==
    \E r \in Tasks :
        /\ pc[r] = "done"
        /\ TaskFailed(r)
        /\ fetch[r].askedPage = 2
        /\ Len(fetch[r].raw_campgrounds) = 1
        /\ result[r] = <<1, 0, 0, 0>>

\* in this step a call for key got a 200 answer carrying an address
AddressAnswered(key) ==
    \E c \in DOMAIN geo :
        /\ geo[c].pc = "request"
        /\ geo[c].key = key
        /\ geo'[c].answer = GeoFound
        /\ geo'[c].requests = geo[c].requests + 1
        /\ geo'[c].ret = DisplayName(key)

(***************************************************************************)
(* C34. Cache content invariant: in every reachable state the geocoding    *)
(* cache maps coordinate pairs to resolved addresses only, never to None;  *)
(* an entry appears only in a step in which a call for its pair got a 200  *)
(* answer carrying an address, and no step removes an entry or changes     *)
(* what it holds.                                                          *)
(***************************************************************************)
C34_CacheContent ==
    /\ [](\A k \in DOMAIN geocoding_cache :
             /\ k \in Keys
             /\ geocoding_cache[k] # None
             /\ geocoding_cache[k] = DisplayName(k))
    /\ [][/\ \A k \in DOMAIN geocoding_cache :
                /\ k \in DOMAIN geocoding_cache'
                /\ geocoding_cache'[k] = geocoding_cache[k]
          /\ \A k \in DOMAIN geocoding_cache' \ DOMAIN geocoding_cache :
                AddressAnswered(k)]_vars

\* the cache holds the address one call stored for a pair, while another
\* call for the same pair that met failures only has returned None
C34_Witness ==
    \E c \in DOMAIN geo :
        /\ geo[c].pc \in {"returned", "collected"}
        /\ geo[c].requests >= 1
        /\ geo[c].ret = None
        /\ InCache(geocoding_cache, geo[c].key)
        /\ geocoding_cache[geo[c].key] = DisplayName(geo[c].key)

=============================================================================
